---- MODULE Spec2Model ----
(***************************************************************************)
(* Model of the IBM Cloud VPC cluster reconciler (VPCClusterScope) of      *)
(* cluster-api-provider-ibmcloud, cloud/scope/vpc_cluster.go: the status   *)
(* cache, the find-or-create sub-reconcilers and the cloud account they    *)
(* converge on.  Every sub-reconciler is a Go method that runs to          *)
(* completion on one goroutine, so a reconcile pass is one action.  The    *)
(* method bodies are operators over a "world" record                       *)
(*    w = [spec, status, cloud, calls, fault]                              *)
(* threaded through the calls in program order; calls is the log of cloud  *)
(* API requests the pass issued and fault names the one cloud API (if any) *)
(* whose requests fail during the pass.  stopOnRequeue tells whether the   *)
(* orchestrator of whole passes ends a pass at the first requeue.          *)
(***************************************************************************)
EXTENDS Naturals, Sequences, FiniteSets

VARIABLES spec, status, cloud, calls, fault, ret, hist, stopOnRequeue

vars == <<spec, status, cloud, calls, fault, ret, hist, stopOnRequeue>>

(***************************************************************************)
(* Bounds of the model.                                                    *)
(***************************************************************************)
\* How many resources the account lets one run create before Create*
\* requests fail with a quota error.
MaxCreated == 3

(***************************************************************************)
(* Values.                                                                 *)
(***************************************************************************)
\* A nil *string.
Nil == "<nil>"

\* A nil pointer to a struct is the empty sequence, a non-nil one <<struct>>.
None == <<>>

Some(x) == <<x>>

\* IDs and CRNs the cloud hands out, in creation order.
IDPool == <<"r1", "r2", "r3", "r4", "r5", "r6", "r7", "r8", "r9", "r10", "r11", "r12">>

CRNPool == <<"crn:r1", "crn:r2", "crn:r3", "crn:r4", "crn:r5", "crn:r6", "crn:r7", "crn:r8",
             "crn:r9", "crn:r10", "crn:r11", "crn:r12">>

\* The IPv4 CIDR block the service assigns to the n-th subnet it creates.
CIDRPool == <<"10.1.0.0/24", "10.2.0.0/24", "10.3.0.0/24", "10.4.0.0/24", "10.5.0.0/24",
              "10.6.0.0/24", "10.7.0.0/24", "10.8.0.0/24", "10.9.0.0/24", "10.10.0.0/24",
              "10.11.0.0/24", "10.12.0.0/24">>

\* IBMVPCCluster.Name of the cluster under reconciliation.
ClusterName == "c1"

\* fmt.Sprintf("%s-vpc", name)
SprintfVPC(name) == IF name = "c1" THEN "c1-vpc" ELSE "?-vpc"

\* fmt.Sprintf("%s-subnet", name)
SprintfSubnet(name) == IF name = "c1" THEN "c1-subnet" ELSE "?-subnet"

\* fmt.Sprintf("%s-pgateway", name)
SprintfPGateway(name) == IF name = "c1" THEN "c1-pgateway" ELSE "?-pgateway"

\* fmt.Sprintf("%s-%s", prefix, zone)
SprintfZone(prefix, zone) ==
    CASE prefix = "c1-subnet" /\ zone = "z1" -> "c1-subnet-z1"
      [] prefix = "c1-subnet" /\ zone = "z2" -> "c1-subnet-z2"
      [] prefix = "c1-pgateway" /\ zone = "z1" -> "c1-pgateway-z1"
      [] prefix = "c1-pgateway" /\ zone = "z2" -> "c1-pgateway-z2"
      [] OTHER -> "?-?"

(***************************************************************************)
(* The world record and results of calls.                                  *)
(***************************************************************************)
World(f) == [spec |-> spec, status |-> status, cloud |-> cloud, calls |-> <<>>, fault |-> f]

\* (value, error) results; val is None for a nil value.
Ok(w, v) == [w |-> w, err |-> FALSE, val |-> v]

Err(w) == [w |-> w, err |-> TRUE, val |-> None]

\* (requeue bool, err error) results of the sub-reconcilers.
Return(w, requeue, err) == [w |-> w, requeue |-> requeue, err |-> err]

\* x := v; K(x).  The value is computed once and bound to x, as the
\* assignment does (also where the step is evaluated under ENABLED).
Let(v, K(_)) == CHOOSE res \in { K(x) : x \in {v} } : TRUE

\* x, err := r; if err != nil { return nil, err }; K(x)
Try(r, K(_)) == CHOOSE res \in { IF x.err THEN Err(x.w) ELSE K(x) : x \in {r} } : TRUE

\* x, err := r; if err != nil { return false, err }; K(x)
TryR(r, K(_)) == CHOOSE res \in { IF x.err THEN Return(x.w, FALSE, TRUE) ELSE K(x) : x \in {r} } : TRUE

\* The log of cloud API requests of a pass, each with its outcome.
Log(w, api, arg, k, ok) ==
    [w EXCEPT !.calls = Append(@, [api |-> api, arg |-> arg, k |-> k, ok |-> ok])]

\* A cloud API request: it fails when the pass's fault names its API.
Request(w, api, arg) ==
    IF w.fault = api THEN Err(Log(w, api, arg, <<>>, FALSE))
    ELSE Ok(Log(w, api, arg, <<>>, TRUE), None)

\* A Create* request: it also fails once the account's quota is used up; on
\* success the cloud assigns the next ID and CRN to the created resource.
CreateRequest(w, api, arg, k) ==
    IF w.fault = api \/ w.cloud.nextID > w.cloud.quota
    THEN Err(Log(w, api, arg, k, FALSE))
    ELSE Ok([Log(w, api, arg, k, TRUE) EXCEPT !.cloud.nextID = @ + 1],
            Some([id |-> IDPool[w.cloud.nextID], crn |-> CRNPool[w.cloud.nextID],
                  cidr |-> CIDRPool[w.cloud.nextID]]))

\* The first element of a list of matches, None if there is none.
First(list) == IF list = <<>> THEN None ELSE Some(list[1])

\* Go maps with string keys (the status buckets).
EmptyMap == <<>>

MapPut(m, key, v) == [x \in (DOMAIN m) \cup {key} |-> IF x = key THEN v ELSE m[x]]

MapGet(m, key, default) == IF key \in DOMAIN m THEN m[key] ELSE default

\* A faulty lookup that accepts the first of several same-named resource
\* groups; C10 fails for it.
GetResourceGroupByName_FirstMatch(w, rgName) ==
    Try(Request(w, "ListResourceGroups", rgName), LAMBDA q :
    Let(SelectSeq(q.w.cloud.rgs, LAMBDA g : g.name = rgName), LAMBDA resources :
        IF Len(resources) = 0 THEN Err(q.w)
        ELSE Ok(q.w, Some(resources[1]))))

(***************************************************************************)
(* Resource groups.                                                        *)
(***************************************************************************)
\* resourcemanager.Service.GetResourceGroupByName: list by name, exactly one
\* match required.
GetResourceGroupByName(w, rgName) ==
    Try(Request(w, "ListResourceGroups", rgName), LAMBDA q :
    Let(SelectSeq(q.w.cloud.rgs, LAMBDA g : g.name = rgName), LAMBDA resources :
        IF Len(resources) # 1 THEN Err(q.w)
        ELSE Ok(q.w, Some(resources[1]))))

\* VPCClusterScope.GetResourceGroupID
GetResourceGroupID(w) ==
    IF w.status.resourceGroup # None /\ w.status.resourceGroup[1].id # ""
    THEN Ok(w, Some(w.status.resourceGroup[1].id))
    ELSE Try(GetResourceGroupByName(w, IF w.spec.resourceGroup = "" THEN w.spec.name
                                       ELSE w.spec.resourceGroup), LAMBDA r :
         IF r.val = None THEN Err(r.w)
         ELSE Ok(r.w, Some(r.val[1].id)))

\* VPCClusterScope.SetStatus, GenericResourceReference.Set
SetStatus(w, resource) ==
    IF w.status.resourceGroup = None
    THEN [w EXCEPT !.status.resourceGroup = Some(resource)]
    ELSE [w EXCEPT !.status.resourceGroup[1].id = resource.id]

\* VPCClusterScope.ReconcileResourceGroup
ReconcileResourceGroup(w) ==
    TryR(GetResourceGroupID(w), LAMBDA r :
         Return(SetStatus(r.w, [id |-> r.val[1], name |-> Nil]), FALSE, FALSE))

(***************************************************************************)
(* Tagging.                                                                *)
(***************************************************************************)
\* strings.HasPrefix over the tag names of the model.
HasPrefix(s, prefix) ==
    \/ s = prefix
    \/ (s = "c1-old" /\ prefix \in {"c", "c1"})
    \/ (s = "c1" /\ prefix = "c")

\* A faulty GetTagByName that accepts a tag whose name only starts with the
\* name asked for; C17 fails for it.
GetTagByName_PrefixMatch(w, tagName) ==
    Try(Request(w, "ListTags", "user"), LAMBDA q :
        Ok(q.w, IF \E t \in q.w.cloud.tags : HasPrefix(t, tagName)
                THEN Some(tagName) ELSE None))

\* globaltagging.Service.GetTagByName: list the user tags, linear scan.
GetTagByName(w, tagName) ==
    Try(Request(w, "ListTags", "user"), LAMBDA q :
        Ok(q.w, IF tagName \in q.w.cloud.tags THEN Some(tagName) ELSE None))

\* VPCClusterScope.CheckTagExists
CheckTagExists(w, tagName) ==
    Try(GetTagByName(w, tagName), LAMBDA r : Ok(r.w, Some(r.val # None)))

\* A faulty TagResource that drops the error of the attach request; C12 fails
\* for it.
TagResource_IgnoreAttachError(w, tagName, resourceCRN) ==
    Try(CheckTagExists(w, tagName), LAMBDA e :
    Try(IF e.val[1] THEN Ok(e.w, None)
        ELSE Try(Request(e.w, "CreateTag", tagName), LAMBDA q :
                 Ok([q.w EXCEPT !.cloud.tags = @ \cup {tagName}], None)), LAMBDA c :
    Let(Request(c.w, "AttachTag", resourceCRN), LAMBDA a :
        IF a.err THEN Ok(a.w, None)
        ELSE Ok([a.w EXCEPT !.cloud.attached = @ \cup {<<resourceCRN, tagName>>}], None))))

\* VPCClusterScope.TagResource
TagResource(w, tagName, resourceCRN) ==
    Try(CheckTagExists(w, tagName), LAMBDA e :
    Try(IF e.val[1] THEN Ok(e.w, None)
        ELSE Try(Request(e.w, "CreateTag", tagName), LAMBDA q :
                 Ok([q.w EXCEPT !.cloud.tags = @ \cup {tagName}], None)), LAMBDA c :
    Try(Request(c.w, "AttachTag", resourceCRN), LAMBDA a :
        Ok([a.w EXCEPT !.cloud.attached = @ \cup {<<resourceCRN, tagName>>}], None))))

(***************************************************************************)
(* The status cache.                                                       *)
(***************************************************************************)
\* VPCClusterScope.SetVPCResourceStatus, VPCResourceStatus.Set
SetVPCResourceStatus(w, resourceType, resource) ==
    CASE resourceType = "vpc" ->
           [w EXCEPT !.status.networkStatus = TRUE, !.status.vpc = Some(resource)]
      [] resourceType = "customImage" ->
           [w EXCEPT !.status.image = Some(resource)]
      [] resourceType = "controlPlaneSubnet" ->
           [w EXCEPT !.status.networkStatus = TRUE,
                     !.status.controlPlaneSubnets = MapPut(@, resource.name, resource)]
      [] resourceType = "computeSubnet" ->
           [w EXCEPT !.status.networkStatus = TRUE,
                     !.status.workerSubnets = MapPut(@, resource.name, resource)]
      [] resourceType = "securityGroup" ->
           [w EXCEPT !.status.networkStatus = TRUE,
                     !.status.securityGroups = MapPut(@, resource.name, resource)]
      [] OTHER -> w

(***************************************************************************)
(* VPC.                                                                    *)
(***************************************************************************)
\* VPCClusterScope.GetServiceName
GetServiceName(w, resourceType) ==
    CASE resourceType = "vpc" ->
             IF w.spec.network.vpc = None \/ w.spec.network.vpc[1].name = Nil
             THEN SprintfVPC(w.spec.name)
             ELSE w.spec.network.vpc[1].name
      [] resourceType = "subnet" -> SprintfSubnet(w.spec.name)
      [] resourceType = "publicGateway" -> SprintfPGateway(w.spec.name)
      [] OTHER -> Nil

\* vpc.Service.GetVPCByName: the first VPC of the account with the name.
GetVPCByName(w, name) ==
    Try(Request(w, "GetVPCByName", name), LAMBDA q :
        Ok(q.w, First(SelectSeq(q.w.cloud.vpcs, LAMBDA v : v.name = name))))

\* A faulty GetVPCID that does not record the ID it found by name in the
\* spec; C21 (amended) fails for it.
GetVPCID_SpecIDNotSet(w) ==
    IF w.status.networkStatus /\ w.status.vpc # None
    THEN Ok(w, Some(w.status.vpc[1].id))
    ELSE IF w.spec.network.vpc = None THEN Ok(w, None)
    ELSE IF w.spec.network.vpc[1].id # Nil THEN Ok(w, Some(w.spec.network.vpc[1].id))
    ELSE IF w.spec.network.vpc[1].name = Nil THEN Ok(w, None)
    ELSE Try(GetVPCByName(w, w.spec.network.vpc[1].name), LAMBDA r :
             IF r.val = None THEN Ok(r.w, None)
             ELSE Ok(r.w, Some(r.val[1].id)))

\* VPCClusterScope.GetVPCID
GetVPCID(w) ==
    IF w.status.networkStatus /\ w.status.vpc # None
    THEN Ok(w, Some(w.status.vpc[1].id))
    ELSE IF w.spec.network.vpc = None THEN Ok(w, None)
    ELSE IF w.spec.network.vpc[1].id # Nil THEN Ok(w, Some(w.spec.network.vpc[1].id))
    ELSE IF w.spec.network.vpc[1].name = Nil THEN Ok(w, None)
    ELSE Try(GetVPCByName(w, w.spec.network.vpc[1].name), LAMBDA r :
             IF r.val = None THEN Ok(r.w, None)
             ELSE Ok([r.w EXCEPT !.spec.network.vpc[1].id = r.val[1].id],
                     Some(r.val[1].id)))

\* A faulty createVPC that leaves the new VPC untagged; C7 fails for it.
createVPC_Untagged(w) ==
    Try(GetResourceGroupID(w), LAMBDA g :
    IF g.val[1] = "" THEN Err(g.w)
    ELSE
    Try(CreateRequest(g.w, "CreateVPC", GetServiceName(g.w, "vpc"), <<>>), LAMBDA c :
    Let([id |-> c.val[1].id, name |-> GetServiceName(g.w, "vpc"), crn |-> c.val[1].crn,
         status |-> "pending", resourceGroup |-> g.val[1]], LAMBDA vpcDetails :
        Ok([c.w EXCEPT !.cloud.vpcs = Append(@, vpcDetails)], Some(vpcDetails.id)))))

\* VPCClusterScope.createVPC
createVPC(w) ==
    Try(GetResourceGroupID(w), LAMBDA g :
    IF g.val[1] = "" THEN Err(g.w)
    ELSE
    Try(CreateRequest(g.w, "CreateVPC", GetServiceName(g.w, "vpc"), <<>>), LAMBDA c :
    Let([id |-> c.val[1].id, name |-> GetServiceName(g.w, "vpc"), crn |-> c.val[1].crn,
         status |-> "pending", resourceGroup |-> g.val[1]], LAMBDA vpcDetails :
    Try(TagResource([c.w EXCEPT !.cloud.vpcs = Append(@, vpcDetails)],
                    c.w.spec.name, vpcDetails.crn), LAMBDA t :
        Ok(t.w, Some(vpcDetails.id))))))

\* A faulty ReconcileVPC that asks for a requeue together with the error of
\* a failed create; C14 fails for it.
ReconcileVPC_RequeueOnCreateError(w) ==
    TryR(GetVPCID(w), LAMBDA i :
    IF i.val # None
    THEN TryR(Request(i.w, "GetVPC", i.val[1]), LAMBDA q :
         Let(First(SelectSeq(q.w.cloud.vpcs, LAMBDA v : v.id = i.val[1])), LAMBDA vpcDetails :
             IF vpcDetails = None THEN Return(q.w, FALSE, TRUE)
             ELSE Return(SetVPCResourceStatus(q.w, "vpc",
                             [id |-> i.val[1], name |-> vpcDetails[1].name,
                              ready |-> vpcDetails[1].status = "available"]),
                         vpcDetails[1].status # "available", FALSE)))
    ELSE Let(createVPC(i.w), LAMBDA c :
             IF c.err THEN Return(c.w, TRUE, TRUE)
             ELSE Return(SetVPCResourceStatus(c.w, "vpc",
                             [id |-> c.val[1], name |-> GetServiceName(c.w, "vpc"),
                              ready |-> FALSE]),
                         TRUE, FALSE)))

\* VPCClusterScope.ReconcileVPC
ReconcileVPC(w) ==
    TryR(GetVPCID(w), LAMBDA i :
    IF i.val # None
    THEN TryR(Request(i.w, "GetVPC", i.val[1]), LAMBDA q :
         Let(First(SelectSeq(q.w.cloud.vpcs, LAMBDA v : v.id = i.val[1])), LAMBDA vpcDetails :
             IF vpcDetails = None THEN Return(q.w, FALSE, TRUE)
             ELSE Return(SetVPCResourceStatus(q.w, "vpc",
                             [id |-> i.val[1], name |-> vpcDetails[1].name,
                              ready |-> vpcDetails[1].status = "available"]),
                         vpcDetails[1].status # "available", FALSE)))
    ELSE TryR(createVPC(i.w), LAMBDA c :
              Return(SetVPCResourceStatus(c.w, "vpc",
                         [id |-> c.val[1], name |-> GetServiceName(c.w, "vpc"),
                          ready |-> FALSE]),
                     TRUE, FALSE)))

(***************************************************************************)
(* Custom image.                                                           *)
(***************************************************************************)
\* VPCClusterScope.GetNetworkResourceGroupID
GetNetworkResourceGroupID(w) ==
    IF w.status.networkStatus /\ w.status.networkResourceGroup # None
       /\ w.status.networkResourceGroup[1].id # ""
    THEN Ok(w, Some(w.status.networkResourceGroup[1].id))
    ELSE IF w.spec.network.resourceGroup # Nil
    THEN Try(GetResourceGroupByName(w, w.spec.network.resourceGroup), LAMBDA r :
             Ok([r.w EXCEPT !.status.networkStatus = TRUE,
                            !.status.networkResourceGroup = Some([id |-> r.val[1].id])],
                Some(r.val[1].id)))
    ELSE GetResourceGroupID(w)

\* fmt.Sprintf("cos://%s/%s/%s", bucketRegion, bucket, object) for the one
\* bucket "b" and object "o" of the image spec.
SprintfCOS(bucketRegion) ==
    CASE bucketRegion = "eu" -> "cos://eu/b/o"
      [] bucketRegion = "us" -> "cos://us/b/o"
      [] OTHER -> "cos://?/b/o"

\* VPCClusterScope.buildCOSObjectHRef
buildCOSObjectHRef(w) ==
    IF ~w.spec.image[1].cos THEN Err(w)
    ELSE Ok(w, Some(SprintfCOS(IF w.spec.image[1].cosBucketRegion # Nil
                               THEN w.spec.image[1].cosBucketRegion
                               ELSE w.spec.region)))

\* A faulty choice that falls back to the network resource group before the
\* cluster's; C9 fails for it.
ImageResourceGroupID_ViaNetwork(w) ==
    IF w.spec.image[1].resourceGroup # None
    THEN IF w.spec.image[1].resourceGroup[1].id # ""
         THEN Ok(w, Some(w.spec.image[1].resourceGroup[1].id))
         ELSE IF w.spec.image[1].resourceGroup[1].name # Nil
         THEN Try(GetResourceGroupByName(w, w.spec.image[1].resourceGroup[1].name),
                  LAMBDA r : Ok(r.w, Some(r.val[1].id)))
         ELSE Ok(w, Some(Nil))
    ELSE GetNetworkResourceGroupID(w)

\* The resource group createCustomImage creates the image in: a value of
\* Nil is the nil *string of an image resource-group reference that holds
\* neither an ID nor a name.
ImageResourceGroupID(w) ==
    IF w.spec.image[1].resourceGroup # None
    THEN IF w.spec.image[1].resourceGroup[1].id # ""
         THEN Ok(w, Some(w.spec.image[1].resourceGroup[1].id))
         ELSE IF w.spec.image[1].resourceGroup[1].name # Nil
         THEN Try(GetResourceGroupByName(w, w.spec.image[1].resourceGroup[1].name),
                  LAMBDA r : Ok(r.w, Some(r.val[1].id)))
         ELSE Ok(w, Some(Nil))
    ELSE GetResourceGroupID(w)

\* A faulty createCustomImage that does not require an operatingSystem; C16
\* fails for it.
createCustomImage_AnyOperatingSystem(w) ==
    IF w.spec.image = None THEN Err(w)
    ELSE
    Try(ImageResourceGroupID(w), LAMBDA g :
    Try(buildCOSObjectHRef(g.w), LAMBDA h :
    Try(CreateRequest(h.w, "CreateImage", h.w.spec.image[1].name,
                      [resourceGroup |-> g.val[1], href |-> h.val[1],
                       operatingSystem |-> h.w.spec.image[1].operatingSystem]), LAMBDA c :
    Let([id |-> c.val[1].id, name |-> c.w.spec.image[1].name, crn |-> c.val[1].crn,
         status |-> "pending", resourceGroup |-> g.val[1]], LAMBDA imageDetails :
    Try(TagResource([c.w EXCEPT !.cloud.images = Append(@, imageDetails)],
                    c.w.spec.name, imageDetails.crn), LAMBDA t :
        Ok(t.w, Some(imageDetails)))))))

\* VPCClusterScope.createCustomImage
createCustomImage(w) ==
    IF w.spec.image = None THEN Err(w)
    ELSE
    Try(ImageResourceGroupID(w), LAMBDA g :
    IF g.w.spec.image[1].operatingSystem = Nil THEN Err(g.w)
    ELSE
    Try(buildCOSObjectHRef(g.w), LAMBDA h :
    Try(CreateRequest(h.w, "CreateImage", h.w.spec.image[1].name,
                      [resourceGroup |-> g.val[1], href |-> h.val[1],
                       operatingSystem |-> h.w.spec.image[1].operatingSystem]), LAMBDA c :
    Let([id |-> c.val[1].id, name |-> c.w.spec.image[1].name, crn |-> c.val[1].crn,
         status |-> "pending", resourceGroup |-> g.val[1]], LAMBDA imageDetails :
    Try(TagResource([c.w EXCEPT !.cloud.images = Append(@, imageDetails)],
                    c.w.spec.name, imageDetails.crn), LAMBDA t :
        Ok(t.w, Some(imageDetails)))))))

\* s.VPCClient.GetImageByName
GetImageByName(w, name) ==
    Try(Request(w, "GetImageByName", name), LAMBDA q :
        Ok(q.w, First(SelectSeq(q.w.cloud.images, LAMBDA x : x.name = name))))

\* The image ID ReconcileVPCCustomImage collects from Status.ImageStatus.
ImageIDFromStatus(w) ==
    IF w.status.image = None THEN Ok(w, None)
    ELSE IF w.status.image[1].id # "" THEN Ok(w, Some(w.status.image[1].id))
    ELSE IF w.status.image[1].name # ""
    THEN Try(GetImageByName(w, w.status.image[1].name), LAMBDA r :
             IF r.val # None THEN Ok(r.w, Some(r.val[1].id))
             ELSE Ok(r.w, None))
    ELSE Ok(w, None)

\* VPCClusterScope.ReconcileVPCCustomImage
ReconcileVPCCustomImage(w) ==
    TryR(ImageIDFromStatus(w), LAMBDA i :
    IF i.val # None
    THEN TryR(Request(i.w, "GetImage", i.val[1]), LAMBDA q :
         Let(First(SelectSeq(q.w.cloud.images, LAMBDA x : x.id = i.val[1])), LAMBDA image :
             IF image = None THEN Return(q.w, FALSE, TRUE)
             ELSE Return(SetVPCResourceStatus(q.w, "customImage",
                             [id |-> i.val[1], name |-> image[1].name,
                              ready |-> image[1].status = "available"]),
                         image[1].status # "available", FALSE)))
    ELSE IF i.w.spec.image = None THEN Return(i.w, FALSE, TRUE)
    ELSE TryR(createCustomImage(i.w), LAMBDA c :
              Return(SetVPCResourceStatus(c.w, "customImage",
                         [id |-> c.val[1].id, name |-> c.val[1].name, ready |-> FALSE]),
                     TRUE, FALSE)))

(***************************************************************************)
(* Public gateways and subnets.                                            *)
(***************************************************************************)
\* A faulty lookup that compares the name with the gateways' IDs, so that it
\* finds none; C28 fails for it.
GetPublicGatewayByName_ByID(w, name, resourceGroupID) ==
    Try(Request(w, "GetPublicGatewayByName", name), LAMBDA q :
        Ok(q.w, First(SelectSeq(q.w.cloud.pgws,
                                LAMBDA p : p.id = name /\ p.resourceGroup = resourceGroupID))))

\* s.VPCClient.GetPublicGatewayByName: the first public gateway of the
\* resource group with the name.
GetPublicGatewayByName(w, name, resourceGroupID) ==
    Try(Request(w, "GetPublicGatewayByName", name), LAMBDA q :
        Ok(q.w, First(SelectSeq(q.w.cloud.pgws,
                                LAMBDA p : p.name = name /\ p.resourceGroup = resourceGroupID))))

\* A faulty findOrCreatePublicGateway that drops the error of tagging the new
\* gateway; C27 fails for it.
findOrCreatePublicGateway_IgnoreTagError(w, zone) ==
    Try(GetResourceGroupID(w), LAMBDA g :
    Try(GetPublicGatewayByName(g.w, SprintfZone(GetServiceName(g.w, "publicGateway"), zone),
                               g.val[1]), LAMBDA p :
    IF p.val # None THEN Ok(p.w, p.val)
    ELSE
    Try(GetVPCID(p.w), LAMBDA v :
    IF v.val = None THEN Err(v.w)
    ELSE
    Try(CreateRequest(v.w, "CreatePublicGateway",
                      SprintfZone(GetServiceName(v.w, "publicGateway"), zone),
                      [zone |-> zone, vpc |-> v.val[1], resourceGroup |-> g.val[1]]), LAMBDA c :
    Let([id |-> c.val[1].id, crn |-> c.val[1].crn,
         name |-> SprintfZone(GetServiceName(v.w, "publicGateway"), zone),
         zone |-> zone, vpc |-> v.val[1], resourceGroup |-> g.val[1]],
        LAMBDA publicGatewayDetails :
    Let(TagResource([c.w EXCEPT !.cloud.pgws = Append(@, publicGatewayDetails)],
                    c.w.spec.name, publicGatewayDetails.crn), LAMBDA t :
        Ok(t.w, Some(publicGatewayDetails))))))))

\* VPCClusterScope.findOrCreatePublicGateway
findOrCreatePublicGateway(w, zone) ==
    Try(GetResourceGroupID(w), LAMBDA g :
    Try(GetPublicGatewayByName(g.w, SprintfZone(GetServiceName(g.w, "publicGateway"), zone),
                               g.val[1]), LAMBDA p :
    IF p.val # None THEN Ok(p.w, p.val)
    ELSE
    Try(GetVPCID(p.w), LAMBDA v :
    IF v.val = None THEN Err(v.w)
    ELSE
    Try(CreateRequest(v.w, "CreatePublicGateway",
                      SprintfZone(GetServiceName(v.w, "publicGateway"), zone),
                      [zone |-> zone, vpc |-> v.val[1], resourceGroup |-> g.val[1]]), LAMBDA c :
    Let([id |-> c.val[1].id, crn |-> c.val[1].crn,
         name |-> SprintfZone(GetServiceName(v.w, "publicGateway"), zone),
         zone |-> zone, vpc |-> v.val[1], resourceGroup |-> g.val[1]],
        LAMBDA publicGatewayDetails :
    Try(TagResource([c.w EXCEPT !.cloud.pgws = Append(@, publicGatewayDetails)],
                    c.w.spec.name, publicGatewayDetails.crn), LAMBDA t :
        Ok(t.w, Some(publicGatewayDetails))))))))

\* s.VPCClient.CreateSubnet: the service rejects a subnet prototype that
\* names no VPC.
CreateSubnet(w, name, k) ==
    IF k.vpc = Nil THEN Err(Log(w, "CreateSubnet", name, k, FALSE))
    ELSE CreateRequest(w, "CreateSubnet", name, k)

\* VPCClusterScope.createSubnet
createSubnet(w, subnet) ==
    Try(GetResourceGroupID(w), LAMBDA g :
    IF g.val[1] = "" THEN Err(g.w)
    ELSE
    Try(GetVPCID(g.w), LAMBDA v :
    IF subnet.zone = Nil THEN Err(v.w)
    ELSE
    Try(findOrCreatePublicGateway(v.w, subnet.zone), LAMBDA p :
    Try(CreateSubnet(p.w, subnet.name,
                     [vpc |-> IF v.val = None THEN Nil ELSE v.val[1], zone |-> subnet.zone,
                      resourceGroup |-> g.val[1], publicGateway |-> p.val[1].id]), LAMBDA c :
    Let([id |-> c.val[1].id, crn |-> c.val[1].crn, name |-> subnet.name,
         cidr |-> c.val[1].cidr, status |-> "pending", zone |-> subnet.zone, vpc |-> v.val[1],
         resourceGroup |-> g.val[1], publicGateway |-> p.val[1].id], LAMBDA subnetDetails :
    Try(TagResource([c.w EXCEPT !.cloud.subnets = Append(@, subnetDetails)],
                    c.w.spec.name, subnetDetails.crn), LAMBDA t :
        Ok(t.w, Some(subnetDetails))))))))

\* s.VPCClient.GetVPCSubnetByName
GetVPCSubnetByName(w, name) ==
    Try(Request(w, "GetVPCSubnetByName", name), LAMBDA q :
        Ok(q.w, First(SelectSeq(q.w.cloud.subnets, LAMBDA x : x.name = name))))

\* The status bucket of a role: NetworkStatus.ControlPlaneSubnets or
\* NetworkStatus.WorkerSubnets.
SubnetBucket(w, isControlPlane) ==
    IF isControlPlane THEN w.status.controlPlaneSubnets ELSE w.status.workerSubnets

\* The subnetID reconcileSubnet starts from: the declared ID, else the ID of
\* the subnet found by name.
SubnetIDOf(w, subnet) ==
    IF subnet.id # Nil THEN Ok(w, Some(subnet.id))
    ELSE IF subnet.name = Nil THEN Err(w)
    ELSE Try(GetVPCSubnetByName(w, subnet.name), LAMBDA r :
             Ok(r.w, IF r.val # None THEN Some(r.val[1].id) ELSE None))

\* reconcileSubnet after a create: the new subnet is cached under its ID, with
\* no name.
SetCreatedSubnetStatus(w, isControlPlane, id) ==
    IF isControlPlane
    THEN [w EXCEPT !.status.controlPlaneSubnets =
                      MapPut(@, id, [id |-> id, name |-> "", ready |-> FALSE])]
    ELSE [w EXCEPT !.status.workerSubnets =
                      MapPut(@, id, [id |-> id, name |-> "", ready |-> FALSE])]

\* A faulty reconcileSubnet that fetches the subnet without consulting the
\* status cache; C8 fails for it.
reconcileSubnet_Uncached(w, subnet, isControlPlane) ==
    TryR(SubnetIDOf(w, subnet), LAMBDA s :
    IF s.val # None
    THEN TryR(Request(s.w, "GetSubnet", s.val[1]), LAMBDA q :
         Let(First(SelectSeq(q.w.cloud.subnets, LAMBDA x : x.id = s.val[1])),
             LAMBDA subnetDetails :
             IF subnetDetails = None \/ subnet.name = Nil THEN Return(q.w, FALSE, TRUE)
             ELSE Return(SetVPCResourceStatus(q.w,
                             IF isControlPlane THEN "controlPlaneSubnet" ELSE "computeSubnet",
                             [id |-> s.val[1], name |-> subnet.name,
                              ready |-> subnetDetails[1].status = "available"]),
                         subnetDetails[1].status # "available", FALSE)))
    ELSE TryR(createSubnet(s.w, subnet), LAMBDA c :
         IF ~c.w.status.networkStatus THEN Return(c.w, FALSE, TRUE)
         ELSE Return(SetCreatedSubnetStatus(c.w, isControlPlane, c.val[1].id), TRUE, FALSE)))

\* VPCClusterScope.reconcileSubnet.  Dereferencing the nil Name of a subnet
\* declared by ID only, or the nil NetworkStatus after a create, panics: the
\* pass ends there with an error.
reconcileSubnet(w, subnet, isControlPlane) ==
    TryR(SubnetIDOf(w, subnet), LAMBDA s :
    IF s.val # None
    THEN IF s.w.status.networkStatus /\ subnet.name = Nil THEN Return(s.w, FALSE, TRUE)
         ELSE IF /\ s.w.status.networkStatus
                 /\ subnet.name \in DOMAIN SubnetBucket(s.w, isControlPlane)
                 /\ SubnetBucket(s.w, isControlPlane)[subnet.name].ready
         THEN Return(s.w, FALSE, FALSE)
         ELSE TryR(Request(s.w, "GetSubnet", s.val[1]), LAMBDA q :
              Let(First(SelectSeq(q.w.cloud.subnets, LAMBDA x : x.id = s.val[1])),
                  LAMBDA subnetDetails :
                  IF subnetDetails = None \/ subnet.name = Nil THEN Return(q.w, FALSE, TRUE)
                  ELSE Return(SetVPCResourceStatus(q.w,
                                  IF isControlPlane THEN "controlPlaneSubnet"
                                  ELSE "computeSubnet",
                                  [id |-> s.val[1], name |-> subnet.name,
                                   ready |-> subnetDetails[1].status = "available"]),
                              subnetDetails[1].status # "available", FALSE)))
    ELSE TryR(createSubnet(s.w, subnet), LAMBDA c :
         IF ~c.w.status.networkStatus THEN Return(c.w, FALSE, TRUE)
         ELSE Return(SetCreatedSubnetStatus(c.w, isControlPlane, c.val[1].id), TRUE, FALSE)))

\* VPCClusterScope.buildSubnetsForZones
buildSubnetsForZones(w) ==
    Try(Request(w, "GetZonesByRegion", w.spec.region), LAMBDA q :
        IF Len(q.w.cloud.zones) = 0 THEN Err(q.w)
        ELSE Ok(q.w, [i \in 1..Len(q.w.cloud.zones) |->
                        [id |-> Nil,
                         name |-> SprintfZone(GetServiceName(q.w, "subnet"), q.w.cloud.zones[i]),
                         zone |-> q.w.cloud.zones[i]]]))

\* for _, subnet := range subnets { reconcileSubnet(subnet, isControlPlane) }
RECURSIVE ReconcileSubnetsRange(_, _, _, _, _)
ReconcileSubnetsRange(w, subnets, i, isControlPlane, requeue) ==
    IF i > Len(subnets) THEN Return(w, requeue, FALSE)
    ELSE TryR(reconcileSubnet(w, subnets[i], isControlPlane), LAMBDA r :
              ReconcileSubnetsRange(r.w, subnets, i + 1, isControlPlane,
                                    requeue \/ r.requeue))

\* A faulty ReconcileSubnets that goes on to the worker subnets after an error
\* of a control-plane subnet and reports the error at the end; C30 fails for
\* it.
ReconcileSubnets_WorkersAfterError(w) ==
    TryR(IF Len(w.spec.network.controlPlaneSubnets) = 0 THEN buildSubnetsForZones(w)
         ELSE Ok(w, w.spec.network.controlPlaneSubnets), LAMBDA cp :
    Let(ReconcileSubnetsRange(cp.w, cp.val, 1, TRUE, FALSE), LAMBDA r :
    Let(ReconcileSubnetsRange(r.w, IF Len(r.w.spec.network.workerSubnets) # 0
                                   THEN r.w.spec.network.workerSubnets ELSE cp.val,
                              1, FALSE, r.requeue), LAMBDA k :
        Return(k.w, k.requeue /\ ~r.err, r.err \/ k.err))))

\* A faulty ReconcileSubnets that reconciles worker subnets only when some are
\* declared; C29 fails for it.
ReconcileSubnets_DeclaredWorkersOnly(w) ==
    TryR(IF Len(w.spec.network.controlPlaneSubnets) = 0 THEN buildSubnetsForZones(w)
         ELSE Ok(w, w.spec.network.controlPlaneSubnets), LAMBDA cp :
    TryR(ReconcileSubnetsRange(cp.w, cp.val, 1, TRUE, FALSE), LAMBDA r :
         ReconcileSubnetsRange(r.w, r.w.spec.network.workerSubnets, 1, FALSE, r.requeue)))

\* VPCClusterScope.ReconcileSubnets
ReconcileSubnets(w) ==
    TryR(IF Len(w.spec.network.controlPlaneSubnets) = 0 THEN buildSubnetsForZones(w)
         ELSE Ok(w, w.spec.network.controlPlaneSubnets), LAMBDA cp :
    TryR(ReconcileSubnetsRange(cp.w, cp.val, 1, TRUE, FALSE), LAMBDA r :
    TryR(IF Len(r.w.spec.network.workerSubnets) # 0
         THEN Ok(r.w, r.w.spec.network.workerSubnets)
         ELSE IF Len(r.w.spec.network.controlPlaneSubnets) # 0 THEN buildSubnetsForZones(r.w)
         ELSE Ok(r.w, cp.val), LAMBDA wk :
         ReconcileSubnetsRange(wk.w, wk.val, 1, FALSE, r.requeue))))

(***************************************************************************)
(* Security groups.                                                        *)
(***************************************************************************)
\* infrav1beta2.CIDRBlockAny
CIDRBlockAny == "0.0.0.0/0"

\* s.VPCClient.GetSecurityGroupByName: None when no group has the name (the
\* SecurityGroupByNameNotFound error).
GetSecurityGroupByName(w, name) ==
    Try(Request(w, "GetSecurityGroupByName", name), LAMBDA q :
        Ok(q.w, First(SelectSeq(q.w.cloud.sgs, LAMBDA x : x.name = name))))

\* s.VPCClient.GetSecurityGroup
GetSecurityGroup(w, id) ==
    Try(Request(w, "GetSecurityGroup", id), LAMBDA q :
        Ok(q.w, First(SelectSeq(q.w.cloud.sgs, LAMBDA x : x.id = id))))

\* VPCClusterScope.getSecurityGroupIDFromStatus
getSecurityGroupIDFromStatus(w, name) ==
    IF w.status.networkStatus /\ name \in DOMAIN w.status.securityGroups
    THEN Some(w.status.securityGroups[name].id)
    ELSE None

\* VPCClusterScope.getSecurityGroupID
getSecurityGroupID(w, securityGroup) ==
    IF securityGroup.id # Nil THEN Some(securityGroup.id)
    ELSE IF securityGroup.name = Nil THEN None
    ELSE getSecurityGroupIDFromStatus(w, securityGroup.name)

\* The securityGroupID reconcileSecurityGroup starts from: the declared ID,
\* else the ID found by name, else the ID cached under the name.
SecurityGroupIDOf(w, securityGroup) ==
    IF securityGroup.id # Nil THEN Ok(w, Some(securityGroup.id))
    ELSE IF securityGroup.name = Nil THEN Err(w)
    ELSE Try(GetSecurityGroupByName(w, securityGroup.name), LAMBDA r :
             Ok(r.w, IF r.val # None THEN Some(r.val[1].id)
                     ELSE getSecurityGroupIDFromStatus(r.w, securityGroup.name)))

\* s.VPCClient.CreateSecurityGroup: the service rejects a group that names no
\* VPC.
CreateSecurityGroup(w, name, k) ==
    IF k.vpc = Nil THEN Err(Log(w, "CreateSecurityGroup", name, k, FALSE))
    ELSE CreateRequest(w, "CreateSecurityGroup", name, k)

\* VPCClusterScope.reconcileSecurityGroup.  The status entries are written
\* without a name, so they are stored under the empty key.
reconcileSecurityGroup(w, securityGroup) ==
    TryR(SecurityGroupIDOf(w, securityGroup), LAMBDA s :
    IF s.val # None
    THEN TryR(GetSecurityGroup(s.w, s.val[1]), LAMBDA d :
              IF d.val = None THEN Return(d.w, FALSE, TRUE)
              ELSE Return(SetVPCResourceStatus(d.w, "securityGroup",
                              [id |-> s.val[1], name |-> "", ready |-> TRUE]),
                          FALSE, FALSE))
    ELSE
    TryR(GetVPCID(s.w), LAMBDA v :
    TryR(GetResourceGroupID(v.w), LAMBDA g :
    TryR(CreateSecurityGroup(g.w, securityGroup.name,
                             [vpc |-> IF v.val = None THEN Nil ELSE v.val[1],
                              resourceGroup |-> g.val[1]]), LAMBDA c :
    Let([id |-> c.val[1].id, crn |-> c.val[1].crn, name |-> securityGroup.name,
         vpc |-> v.val[1], resourceGroup |-> g.val[1]], LAMBDA securityGroupDetails :
    TryR(TagResource(SetVPCResourceStatus(
                        [c.w EXCEPT !.cloud.sgs = Append(@, securityGroupDetails)],
                        "securityGroup",
                        [id |-> securityGroupDetails.id, name |-> "", ready |-> FALSE]),
                     c.w.spec.name, securityGroupDetails.crn), LAMBDA t :
         Return(t.w, TRUE, FALSE)))))))

\* VPCClusterScope.checkSecurityGroupRulePrototypeRemote.  A CIDR remote is
\* resolved through its SecurityGroupName field; dereferencing a nil field
\* panics and ends the pass with an error.
checkSecurityGroupRulePrototypeRemote(w, securityGroupRuleRemote, existingRemote) ==
    CASE existingRemote.kind = "cidr" ->
           IF securityGroupRuleRemote.remoteType # "cidr" THEN Ok(w, Some(FALSE))
           ELSE IF securityGroupRuleRemote.securityGroupName = Nil THEN Err(w)
           ELSE Try(GetVPCSubnetByName(w, securityGroupRuleRemote.securityGroupName),
                    LAMBDA r :
                    IF r.val = None THEN Err(r.w)
                    ELSE Ok(r.w, Some(r.val[1].cidr = existingRemote.cidrBlock)))
      [] existingRemote.kind = "ip" ->
           CASE securityGroupRuleRemote.remoteType = "address" ->
                  IF securityGroupRuleRemote.address = Nil THEN Err(w)
                  ELSE Ok(w, Some(securityGroupRuleRemote.address = existingRemote.address))
             [] securityGroupRuleRemote.remoteType = "any" ->
                  Ok(w, Some(existingRemote.address = CIDRBlockAny))
             [] OTHER -> Ok(w, Some(FALSE))
      [] existingRemote.kind = "sg" ->
           IF securityGroupRuleRemote.remoteType # "sg" THEN Ok(w, Some(FALSE))
           ELSE IF securityGroupRuleRemote.securityGroupName = Nil THEN Err(w)
           ELSE IF existingRemote.name # Nil
                   /\ securityGroupRuleRemote.securityGroupName = existingRemote.name
           THEN Ok(w, Some(TRUE))
           ELSE Let(getSecurityGroupIDFromStatus(w, securityGroupRuleRemote.securityGroupName),
                    LAMBDA securityGroupID :
                IF securityGroupID # None /\ existingRemote.id # Nil
                   /\ securityGroupID[1] = existingRemote.id
                THEN Ok(w, Some(TRUE))
                ELSE Try(IF securityGroupID # None THEN GetSecurityGroup(w, securityGroupID[1])
                         ELSE GetSecurityGroupByName(w,
                                 securityGroupRuleRemote.securityGroupName), LAMBDA d :
                         IF d.val = None THEN Err(d.w)
                         ELSE Ok(d.w, Some(d.val[1].crn = existingRemote.crn))))
      [] OTHER -> Ok(w, Some(securityGroupRuleRemote.remoteType = "any"))

\* VPCClusterScope.checkSecurityGroupRuleProtocolAll
checkSecurityGroupRuleProtocolAll(w, securityGroupRuleRemote, existingRule) ==
    checkSecurityGroupRulePrototypeRemote(w, securityGroupRuleRemote, existingRule.remote)

\* VPCClusterScope.checkSecurityGroupRuleProtocolIcmp
checkSecurityGroupRuleProtocolIcmp(w, prototype, securityGroupRuleRemote, existingRule) ==
    Try(checkSecurityGroupRulePrototypeRemote(w, securityGroupRuleRemote, existingRule.remote),
        LAMBDA e :
        IF ~e.val[1] THEN Ok(e.w, Some(FALSE))
        ELSE Ok(e.w, Some(/\ prototype.icmpCode # None /\ prototype.icmpType # None
                          /\ existingRule.code # None /\ existingRule.type # None
                          /\ prototype.icmpCode = existingRule.code
                          /\ prototype.icmpType = existingRule.type)))

\* VPCClusterScope.checkSecurityGroupRuleProtocolTcpudp
checkSecurityGroupRuleProtocolTcpudp(w, prototype, securityGroupRuleRemote, existingRule) ==
    IF prototype.protocol # existingRule.protocol THEN Ok(w, Some(FALSE))
    ELSE Try(checkSecurityGroupRulePrototypeRemote(w, securityGroupRuleRemote,
                                                   existingRule.remote), LAMBDA e :
             Ok(e.w, Some(/\ e.val[1]
                          /\ prototype.portRange # None
                          /\ existingRule.portMin # None
                          /\ prototype.portRange[1].minimumPort = existingRule.portMin[1]
                          /\ existingRule.portMax # None
                          /\ prototype.portRange[1].maximumPort = existingRule.portMax[1])))

\* VPCClusterScope.createSecurityGroupRuleRemote: the remote prototype, by
\* the one field it sets.
createSecurityGroupRuleRemote(w, remote) ==
    CASE remote.remoteType = "any" ->
           Ok(w, Some([kind |-> "cidr", cidrBlock |-> CIDRBlockAny, address |-> Nil,
                       crn |-> Nil]))
      [] remote.remoteType = "cidr" ->
           IF remote.cidrSubnetName = Nil THEN Err(w)
           ELSE Try(GetVPCSubnetByName(w, remote.cidrSubnetName), LAMBDA r :
                    IF r.val = None THEN Err(r.w)
                    ELSE Ok(r.w, Some([kind |-> "cidr", cidrBlock |-> r.val[1].cidr,
                                       address |-> Nil, crn |-> Nil])))
      [] remote.remoteType = "address" ->
           Ok(w, Some([kind |-> "ip", cidrBlock |-> Nil, address |-> remote.address,
                       crn |-> Nil]))
      [] remote.remoteType = "sg" ->
           IF remote.securityGroupName = Nil THEN Err(w)
           ELSE Try(GetSecurityGroupByName(w, remote.securityGroupName), LAMBDA r :
                    IF r.val = None THEN Err(r.w)
                    ELSE Ok(r.w, Some([kind |-> "sg", cidrBlock |-> Nil, address |-> Nil,
                                       crn |-> r.val[1].crn])))
      [] OTHER -> Err(w)

\* The remote of a rule as ListSecurityGroupRules returns it.  The client
\* library decides the concrete type the remote is decoded into: the variant
\* of the field that is set, or the generic remote type (kind "generic").
ListedRemote(c, prototypeRemote) ==
    [kind |-> IF c.remoteTyping = "generic" THEN "generic" ELSE prototypeRemote.kind,
     cidrBlock |-> prototypeRemote.cidrBlock,
     address |-> prototypeRemote.address, crn |-> prototypeRemote.crn,
     id |-> IF prototypeRemote.kind = "sg"
            THEN SelectSeq(c.sgs, LAMBDA x : x.crn = prototypeRemote.crn)[1].id ELSE Nil,
     name |-> IF prototypeRemote.kind = "sg"
              THEN SelectSeq(c.sgs, LAMBDA x : x.crn = prototypeRemote.crn)[1].name ELSE Nil]

\* The rule the service holds for an accepted rule prototype.
ListedRule(c, id, securityGroupID, prototype) ==
    [id |-> id, group |-> securityGroupID,
     ruleType |-> IF prototype.protocol \in {"tcp", "udp"} THEN "tcpudp"
                  ELSE prototype.protocol,
     direction |-> prototype.direction, protocol |-> prototype.protocol,
     code |-> prototype.code, type |-> prototype.type,
     portMin |-> prototype.portMin, portMax |-> prototype.portMax,
     remote |-> ListedRemote(c, prototype.remote)]

\* The rule prototype createSecurityGroupRule sends for a declared rule.
RulePrototype(securityGroupRule, prototypeRemote) ==
    [direction |-> securityGroupRule.direction,
     protocol |-> securityGroupRule.protocol,
     code |-> IF securityGroupRule.protocol = "icmp" /\ securityGroupRule.icmpCode # None
                 /\ securityGroupRule.icmpType # None
              THEN securityGroupRule.icmpCode ELSE None,
     type |-> IF securityGroupRule.protocol = "icmp" /\ securityGroupRule.icmpCode # None
                 /\ securityGroupRule.icmpType # None
              THEN securityGroupRule.icmpType ELSE None,
     portMin |-> IF securityGroupRule.protocol \in {"tcp", "udp"}
                    /\ securityGroupRule.portRange # None
                 THEN Some(securityGroupRule.portRange[1].minimumPort) ELSE None,
     portMax |-> IF securityGroupRule.protocol \in {"tcp", "udp"}
                    /\ securityGroupRule.portRange # None
                 THEN Some(securityGroupRule.portRange[1].maximumPort) ELSE None,
     remote |-> prototypeRemote]

\* VPCClusterScope.createSecurityGroupRule
createSecurityGroupRule(w, securityGroupID, securityGroupRule, remote) ==
    Try(createSecurityGroupRuleRemote(w, remote), LAMBDA p :
    IF securityGroupRule.protocol \notin {"all", "icmp", "tcp", "udp"} THEN Err(p.w)
    ELSE
    Try(CreateRequest(p.w, "CreateSecurityGroupRule", securityGroupID,
                      RulePrototype(securityGroupRule, p.val[1])), LAMBDA c :
        Ok([c.w EXCEPT !.cloud.rules = Append(@,
               ListedRule(c.w.cloud, c.val[1].id, securityGroupID,
                          RulePrototype(securityGroupRule, p.val[1])))], None)))

\* VPCClusterScope.createSecurityGroupRuleAllRemotes, from remote i on
RECURSIVE createSecurityGroupRuleAllRemotes(_, _, _, _)
createSecurityGroupRuleAllRemotes(w, securityGroupID, securityGroupRule, i) ==
    IF securityGroupRule.direction \notin {"inbound", "outbound"}
       \/ i > Len(securityGroupRule.remotes)
    THEN Ok(w, None)
    ELSE Try(createSecurityGroupRule(w, securityGroupID, securityGroupRule,
                                     securityGroupRule.remotes[i]), LAMBDA c :
             createSecurityGroupRuleAllRemotes(c.w, securityGroupID, securityGroupRule, i + 1))

\* findOrCreateSecurityGroupRule, the check of one live rule against a
\* declared rule and remote: the switch on the live rule's protocol type.
CheckExistingRule(w, securityGroupRule, remote, existingRule) ==
    CASE existingRule.ruleType = "all" ->
           IF securityGroupRule.protocol # "all"
              \/ securityGroupRule.direction # existingRule.direction
           THEN Ok(w, Some(FALSE))
           ELSE checkSecurityGroupRuleProtocolAll(w, remote, existingRule)
      [] existingRule.ruleType = "icmp" ->
           IF securityGroupRule.protocol # "icmp"
              \/ securityGroupRule.direction # existingRule.direction
           THEN Ok(w, Some(FALSE))
           ELSE checkSecurityGroupRuleProtocolIcmp(w, securityGroupRule, remote, existingRule)
      [] existingRule.ruleType = "tcpudp" ->
           IF securityGroupRule.protocol \notin {"tcp", "udp"}
              \/ securityGroupRule.direction # existingRule.direction
           THEN Ok(w, Some(FALSE))
           ELSE checkSecurityGroupRuleProtocolTcpudp(w, securityGroupRule, remote,
                                                     existingRule)
      [] OTHER -> Ok(w, Some(FALSE))

\* findOrCreateSecurityGroupRule, the loop over the live rules for one
\* remote: every live rule is checked (the break only leaves the switch).
RECURSIVE MatchRemote(_, _, _, _, _, _)
MatchRemote(w, securityGroupRule, remote, existingRules, j, remoteMatch) ==
    IF j > Len(existingRules) THEN Ok(w, Some(remoteMatch))
    ELSE Try(CheckExistingRule(w, securityGroupRule, remote, existingRules[j]), LAMBDA f :
             MatchRemote(f.w, securityGroupRule, remote, existingRules, j + 1,
                         remoteMatch \/ f.val[1]))

\* VPCClusterScope.findOrCreateSecurityGroupRule, from remote i on
RECURSIVE findOrCreateSecurityGroupRule(_, _, _, _, _, _)
findOrCreateSecurityGroupRule(w, securityGroupID, securityGroupRule, existingRules, i, allMatch) ==
    IF securityGroupRule.direction \notin {"inbound", "outbound"} THEN Err(w)
    ELSE IF i > Len(securityGroupRule.remotes) THEN Ok(w, Some(allMatch))
    ELSE Try(MatchRemote(w, securityGroupRule, securityGroupRule.remotes[i], existingRules,
                         1, FALSE), LAMBDA m :
             IF m.val[1]
             THEN findOrCreateSecurityGroupRule(m.w, securityGroupID, securityGroupRule,
                                                existingRules, i + 1, allMatch)
             ELSE Try(createSecurityGroupRule(m.w, securityGroupID, securityGroupRule,
                                              securityGroupRule.remotes[i]), LAMBDA c :
                      findOrCreateSecurityGroupRule(c.w, securityGroupID, securityGroupRule,
                                                    existingRules, i + 1, FALSE)))

\* A faulty reconcileSecurityGroupRule that never asks for a requeue after
\* creating rules; C2 fails for it.
reconcileSecurityGroupRule_NoRequeue(w, securityGroupID, securityGroupRule) ==
    TryR(Request(w, "ListSecurityGroupRules", securityGroupID), LAMBDA q :
    Let(SelectSeq(q.w.cloud.rules, LAMBDA x : x.group = securityGroupID),
        LAMBDA existingSecurityGroupRules :
        IF Len(existingSecurityGroupRules) = 0
        THEN TryR(createSecurityGroupRuleAllRemotes(q.w, securityGroupID, securityGroupRule, 1),
                  LAMBDA c : Return(c.w, FALSE, FALSE))
        ELSE TryR(findOrCreateSecurityGroupRule(q.w, securityGroupID, securityGroupRule,
                                                existingSecurityGroupRules, 1, TRUE),
                  LAMBDA f : Return(f.w, FALSE, FALSE))))

\* VPCClusterScope.reconcileSecurityGroupRule
reconcileSecurityGroupRule(w, securityGroupID, securityGroupRule) ==
    TryR(Request(w, "ListSecurityGroupRules", securityGroupID), LAMBDA q :
    Let(SelectSeq(q.w.cloud.rules, LAMBDA x : x.group = securityGroupID),
        LAMBDA existingSecurityGroupRules :
        IF Len(existingSecurityGroupRules) = 0
        THEN TryR(createSecurityGroupRuleAllRemotes(q.w, securityGroupID, securityGroupRule, 1),
                  LAMBDA c : Return(c.w, TRUE, FALSE))
        ELSE TryR(findOrCreateSecurityGroupRule(q.w, securityGroupID, securityGroupRule,
                                                existingSecurityGroupRules, 1, TRUE),
                  LAMBDA f : Return(f.w, ~f.val[1], FALSE))))

\* reconcileSecurityGroupRules, the loop over the rules of one group
RECURSIVE ReconcileRulesRange(_, _, _, _, _)
ReconcileRulesRange(w, securityGroupID, rules, i, requeue) ==
    IF i > Len(rules) THEN Return(w, requeue, FALSE)
    ELSE TryR(reconcileSecurityGroupRule(w, securityGroupID, rules[i]), LAMBDA r :
              ReconcileRulesRange(r.w, securityGroupID, rules, i + 1, requeue \/ r.requeue))

\* VPCClusterScope.reconcileSecurityGroupRules
reconcileSecurityGroupRules(w, securityGroup) ==
    IF getSecurityGroupID(w, securityGroup) = None THEN Return(w, TRUE, FALSE)
    ELSE IF Len(securityGroup.rules) = 0 THEN Return(w, FALSE, FALSE)
    ELSE ReconcileRulesRange(w, getSecurityGroupID(w, securityGroup)[1],
                             securityGroup.rules, 1, FALSE)

\* ReconcileSecurityGroups, the loops over the declared groups: phase 1
\* reconciles the groups, phase 2 their rules.
RECURSIVE ReconcileGroupsRange(_, _, _, _)
ReconcileGroupsRange(w, phase, i, requeue) ==
    IF i > Len(w.spec.network.securityGroups) THEN Return(w, requeue, FALSE)
    ELSE TryR(IF phase = 1 THEN reconcileSecurityGroup(w, w.spec.network.securityGroups[i])
              ELSE reconcileSecurityGroupRules(w, w.spec.network.securityGroups[i]),
              LAMBDA r : ReconcileGroupsRange(r.w, phase, i + 1, requeue \/ r.requeue))

\* A faulty ReconcileSecurityGroups that goes on to the rules although a
\* group asked for a requeue; C5 fails for it.
ReconcileSecurityGroups_NoPhases(w) ==
    IF Len(w.spec.network.securityGroups) = 0 THEN Return(w, FALSE, FALSE)
    ELSE TryR(ReconcileGroupsRange(w, 1, 1, FALSE), LAMBDA p1 :
              ReconcileGroupsRange(p1.w, 2, 1, p1.requeue))

\* VPCClusterScope.ReconcileSecurityGroups
ReconcileSecurityGroups(w) ==
    IF Len(w.spec.network.securityGroups) = 0 THEN Return(w, FALSE, FALSE)
    ELSE TryR(ReconcileGroupsRange(w, 1, 1, FALSE), LAMBDA p1 :
              IF p1.requeue THEN Return(p1.w, TRUE, FALSE)
              ELSE ReconcileGroupsRange(p1.w, 2, 1, FALSE))

(***************************************************************************)
(* Load balancers.                                                         *)
(***************************************************************************)
\* infrav1beta2.DefaultAPIServerPort
DefaultAPIServerPort == 6443

\* The hostname the service assigns to the n-th resource it creates.
HostnamePool == <<"h1.lb", "h2.lb", "h3.lb", "h4.lb", "h5.lb", "h6.lb", "h7.lb", "h8.lb",
                  "h9.lb", "h10.lb", "h11.lb", "h12.lb">>

\* VPCClusterScope.APIServerPort
APIServerPort(w) ==
    IF w.spec.apiServerPort # None THEN w.spec.apiServerPort[1] ELSE DefaultAPIServerPort

\* VPCClusterScope.GetSubnetID
GetSubnetID(w, name) ==
    IF w.status.networkStatus /\ name \in DOMAIN w.status.controlPlaneSubnets
    THEN Ok(w, Some(w.status.controlPlaneSubnets[name].id))
    ELSE IF w.status.networkStatus /\ name \in DOMAIN w.status.workerSubnets
    THEN Ok(w, Some(w.status.workerSubnets[name].id))
    ELSE Try(GetVPCSubnetByName(w, name), LAMBDA r :
             Ok(r.w, IF r.val = None THEN None ELSE Some(r.val[1].id)))

\* GetSubnetIDs, the checkSubnets closure from subnet i on; subnetMap is the
\* set of IDs collected so far.
RECURSIVE checkSubnets(_, _, _, _)
checkSubnets(w, subnets, i, subnetMap) ==
    IF i > Len(subnets) THEN Ok(w, Some(subnetMap))
    ELSE IF subnets[i].id # Nil
    THEN checkSubnets(w, subnets, i + 1, subnetMap \cup {subnets[i].id})
    ELSE IF subnets[i].name # Nil
    THEN Try(GetSubnetID(w, subnets[i].name), LAMBDA r :
             checkSubnets(r.w, subnets, i + 1,
                          subnetMap \cup (IF r.val = None THEN {} ELSE {r.val[1]})))
    ELSE checkSubnets(w, subnets, i + 1, subnetMap)

\* A faulty GetSubnetIDs that collects the control-plane subnets only; C36
\* fails for it.
GetSubnetIDs_ControlPlaneOnly(w) ==
    IF w.status.networkStatus
    THEN Ok(w, Some({w.status.controlPlaneSubnets[n].id :
                        n \in DOMAIN w.status.controlPlaneSubnets}))
    ELSE checkSubnets(w, w.spec.network.controlPlaneSubnets, 1, {})

\* VPCClusterScope.GetSubnetIDs: the IDs of the status buckets when there is
\* a network status, else those of the declared subnets.
GetSubnetIDs(w) ==
    IF w.status.networkStatus
    THEN Ok(w, Some({w.status.controlPlaneSubnets[n].id :
                        n \in DOMAIN w.status.controlPlaneSubnets}
                    \cup {w.status.workerSubnets[n].id : n \in DOMAIN w.status.workerSubnets}))
    ELSE Try(checkSubnets(w, w.spec.network.controlPlaneSubnets, 1, {}), LAMBDA a :
             checkSubnets(a.w, w.spec.network.workerSubnets, 1, a.val[1]))

\* VPCClusterScope.SetLoadBalancerStatus: an existing entry keeps its
\* controllerCreated flag.
SetLoadBalancerStatus(w, loadBalancer) ==
    IF loadBalancer.id \in DOMAIN w.status.loadBalancers
    THEN [w EXCEPT !.status.networkStatus = TRUE,
                   !.status.loadBalancers[loadBalancer.id] =
                       [@ EXCEPT !.id = loadBalancer.id, !.state = loadBalancer.state,
                                 !.hostname = loadBalancer.hostname]]
    ELSE [w EXCEPT !.status.networkStatus = TRUE,
                   !.status.loadBalancers = MapPut(@, loadBalancer.id, loadBalancer)]

\* s.VPCClient.GetLoadBalancerByName: None when no load balancer has the name.
GetLoadBalancerByName(w, name) ==
    Try(Request(w, "GetLoadBalancerByName", name), LAMBDA q :
        Ok(q.w, First(SelectSeq(q.w.cloud.lbs, LAMBDA x : x.name = name))))

\* s.VPCClient.GetLoadBalancer
GetLoadBalancer(w, id) ==
    Try(Request(w, "GetLoadBalancer", id), LAMBDA q :
        Ok(q.w, First(SelectSeq(q.w.cloud.lbs, LAMBDA x : x.id = id))))

\* A faulty checkLoadBalancerStatus that asks for a requeue in no state; C33
\* fails for it.
checkLoadBalancerStatus_NeverRequeue(provisioningStatus) == FALSE

\* VPCClusterScope.checkLoadBalancerStatus
checkLoadBalancerStatus(provisioningStatus) == provisioningStatus = "create_pending"

\* VPCClusterScope.checkLoadBalancer
checkLoadBalancer(w, lb) ==
    Try(GetLoadBalancerByName(w, lb.name), LAMBDA r :
        IF r.val = None THEN Ok(r.w, None)
        ELSE Ok(r.w, Some([id |-> r.val[1].id, state |-> r.val[1].provisioningStatus,
                           hostname |-> r.val[1].hostname, controllerCreated |-> None])))

\* fmt.Sprintf("%s-pool-%d", lb.Name, port) and
\* fmt.Sprintf("additional-pool-%d", port)
SprintfPool(prefix, port) == <<prefix, "pool", port>>

\* createLoadBalancer, the pool prototype of a port
PoolPrototype(name) ==
    [algorithm |-> "round_robin",
     healthMonitor |-> [delay |-> 5, maxRetries |-> 2, timeout |-> 2, type |-> "tcp"],
     name |-> name, protocol |-> "tcp"]

\* createLoadBalancer, the listener prototype of a port
ListenerPrototype(port, poolName) ==
    [protocol |-> "tcp", port |-> port, defaultPool |-> poolName]

\* s.VPCClient.CreateLoadBalancer: the service rejects a load balancer
\* without subnets.
CreateLoadBalancer(w, name, k) ==
    IF k.subnets = {} THEN Err(Log(w, "CreateLoadBalancer", name, k, FALSE))
    ELSE CreateRequest(w, "CreateLoadBalancer", name, k)

\* VPCClusterScope.createLoadBalancer
createLoadBalancer(w, lb) ==
    Try(GetResourceGroupID(w), LAMBDA g :
    IF g.val[1] = "" THEN Err(g.w)
    ELSE
    Try(GetSubnetIDs(g.w), LAMBDA sn :
    Let([isPublic |-> lb.public # None /\ lb.public[1],
         resourceGroup |-> g.val[1],
         subnets |-> sn.val[1],
         pools |-> <<PoolPrototype(SprintfPool(lb.name, APIServerPort(w)))>>
                   \o [i \in 1..Len(lb.additionalListeners) |->
                          PoolPrototype(SprintfPool("additional",
                                                    lb.additionalListeners[i].port))],
         listeners |-> <<ListenerPrototype(APIServerPort(w),
                                           SprintfPool(lb.name, APIServerPort(w)))>>
                       \o [i \in 1..Len(lb.additionalListeners) |->
                              ListenerPrototype(lb.additionalListeners[i].port,
                                  SprintfPool("additional",
                                              lb.additionalListeners[i].port))]],
        LAMBDA options :
    Try(CreateLoadBalancer(sn.w, lb.name, options), LAMBDA c :
    Let([id |-> c.val[1].id, crn |-> c.val[1].crn, name |-> lb.name,
         provisioningStatus |-> "create_pending",
         hostname |-> HostnamePool[c.w.cloud.nextID - 1], options |-> options],
        LAMBDA loadBalancer :
        Ok([c.w EXCEPT !.cloud.lbs = Append(@, loadBalancer)],
           Some([id |-> loadBalancer.id, state |-> loadBalancer.provisioningStatus,
                 hostname |-> loadBalancer.hostname, controllerCreated |-> Some(TRUE)])))))))

\* The loadBalancerID ReconcileLoadBalancers starts from: the declared ID,
\* else the ID of the load balancer found by name.
LoadBalancerIDOf(w, loadBalancer) ==
    IF loadBalancer.id # Nil THEN Ok(w, Some(loadBalancer.id))
    ELSE IF loadBalancer.name = "" THEN Err(w)
    ELSE Try(GetLoadBalancerByName(w, loadBalancer.name), LAMBDA r :
             Ok(r.w, IF r.val = None THEN None ELSE Some(r.val[1].id)))

\* A faulty loop that goes on to the next declared load balancer after a
\* create; C13 fails for it.
RECURSIVE ReconcileLoadBalancersRange_CreateAll(_, _)
ReconcileLoadBalancersRange_CreateAll(w, i) ==
    IF i > Len(w.spec.network.loadBalancers) THEN Return(w, FALSE, FALSE)
    ELSE
    TryR(LoadBalancerIDOf(w, w.spec.network.loadBalancers[i]), LAMBDA s :
    IF s.val # None
    THEN IF /\ s.w.status.networkStatus
            /\ s.val[1] \in DOMAIN s.w.status.loadBalancers
            /\ s.w.status.loadBalancers[s.val[1]].state = "active"
         THEN ReconcileLoadBalancersRange_CreateAll(s.w, i + 1)
         ELSE TryR(GetLoadBalancer(s.w, s.val[1]), LAMBDA d :
              IF d.val = None THEN Return(d.w, FALSE, TRUE)
              ELSE IF checkLoadBalancerStatus(d.val[1].provisioningStatus)
              THEN Return(d.w, TRUE, FALSE)
              ELSE ReconcileLoadBalancersRange_CreateAll(
                       SetLoadBalancerStatus(d.w,
                           [id |-> d.val[1].id, state |-> d.val[1].provisioningStatus,
                            hostname |-> d.val[1].hostname, controllerCreated |-> None]),
                       i + 1))
    ELSE
    TryR(checkLoadBalancer(s.w, s.w.spec.network.loadBalancers[i]), LAMBDA k :
    IF k.val # None
    THEN ReconcileLoadBalancersRange_CreateAll(SetLoadBalancerStatus(k.w, k.val[1]), i + 1)
    ELSE TryR(createLoadBalancer(k.w, k.w.spec.network.loadBalancers[i]), LAMBDA c :
              ReconcileLoadBalancersRange_CreateAll(SetLoadBalancerStatus(c.w, c.val[1]),
                                                    i + 1))))

\* ReconcileLoadBalancers, the loop over the declared load balancers from
\* load balancer i on.  GetLoadBalancer of an ID the account does not hold
\* leaves a nil result that is dereferenced: the pass ends with an error.
RECURSIVE ReconcileLoadBalancersRange(_, _)
ReconcileLoadBalancersRange(w, i) ==
    IF i > Len(w.spec.network.loadBalancers) THEN Return(w, FALSE, FALSE)
    ELSE
    TryR(LoadBalancerIDOf(w, w.spec.network.loadBalancers[i]), LAMBDA s :
    IF s.val # None
    THEN IF /\ s.w.status.networkStatus
            /\ s.val[1] \in DOMAIN s.w.status.loadBalancers
            /\ s.w.status.loadBalancers[s.val[1]].state = "active"
         THEN ReconcileLoadBalancersRange(s.w, i + 1)
         ELSE TryR(GetLoadBalancer(s.w, s.val[1]), LAMBDA d :
              IF d.val = None THEN Return(d.w, FALSE, TRUE)
              ELSE IF checkLoadBalancerStatus(d.val[1].provisioningStatus)
              THEN Return(d.w, TRUE, FALSE)
              ELSE ReconcileLoadBalancersRange(
                       SetLoadBalancerStatus(d.w,
                           [id |-> d.val[1].id, state |-> d.val[1].provisioningStatus,
                            hostname |-> d.val[1].hostname, controllerCreated |-> None]),
                       i + 1))
    ELSE
    TryR(checkLoadBalancer(s.w, s.w.spec.network.loadBalancers[i]), LAMBDA k :
    IF k.val # None
    THEN ReconcileLoadBalancersRange(SetLoadBalancerStatus(k.w, k.val[1]), i + 1)
    ELSE TryR(createLoadBalancer(k.w, k.w.spec.network.loadBalancers[i]), LAMBDA c :
              Return(SetLoadBalancerStatus(c.w, c.val[1]), TRUE, FALSE))))

\* VPCClusterScope.ReconcileLoadBalancers
ReconcileLoadBalancers(w) ==
    IF Len(w.spec.network.loadBalancers) = 0 THEN Return(w, FALSE, TRUE)
    ELSE ReconcileLoadBalancersRange(w, 1)

(***************************************************************************)
(* The orchestrator of a whole reconcile pass.                             *)
(***************************************************************************)
\* The sub-reconcilers in dependency order.
Steps == <<"ReconcileResourceGroup", "ReconcileVPC", "ReconcileVPCCustomImage",
           "ReconcileSubnets", "ReconcileSecurityGroups", "ReconcileLoadBalancers">>

RunStep(w, op) ==
    CASE op = "ReconcileResourceGroup" -> ReconcileResourceGroup(w)
      [] op = "ReconcileVPC" -> ReconcileVPC(w)
      [] op = "ReconcileVPCCustomImage" -> ReconcileVPCCustomImage(w)
      [] op = "ReconcileSubnets" -> ReconcileSubnets(w)
      [] op = "ReconcileSecurityGroups" -> ReconcileSecurityGroups(w)
      [] op = "ReconcileLoadBalancers" -> ReconcileLoadBalancers(w)

\* A whole pass from step i on: an error aborts the pass; a requeue either
\* ends the pass at once (stop) or is aggregated over the remaining
\* sub-reconcilers.
RECURSIVE Reconcile(_, _, _, _)
Reconcile(w, i, stop, requeue) ==
    IF i > Len(Steps) THEN Return(w, requeue, FALSE)
    ELSE TryR(RunStep(w, Steps[i]), LAMBDA r :
              IF r.requeue /\ stop THEN Return(r.w, TRUE, FALSE)
              ELSE Reconcile(r.w, i + 1, stop, requeue \/ r.requeue))

(***************************************************************************)
(* State, passes and the cloud's own progress.                             *)
(***************************************************************************)
\* IBMVPCClusterStatus before the first pass: nothing cached.
EmptyStatus ==
    [networkStatus |-> FALSE, vpc |-> None, resourceGroup |-> None,
     networkResourceGroup |-> None, image |-> None,
     controlPlaneSubnets |-> EmptyMap, workerSubnets |-> EmptyMap,
     securityGroups |-> EmptyMap, loadBalancers |-> EmptyMap]

\* An IBMVPCClusterSpec that declares nothing but the cluster's resource group.
BaseSpec ==
    [name |-> ClusterName, resourceGroup |-> "rg", region |-> "eu",
     network |-> [resourceGroup |-> Nil, vpc |-> None,
                  controlPlaneSubnets |-> <<>>, workerSubnets |-> <<>>,
                  securityGroups |-> <<>>, loadBalancers |-> <<>>],
     image |-> None, apiServerPort |-> None]

\* An account that holds the cluster's resource group and nothing else.
BaseCloud ==
    [rgs |-> <<[id |-> "rg-id", name |-> "rg"]>>,
     vpcs |-> <<>>, images |-> <<>>, subnets |-> <<>>, pgws |-> <<>>,
     sgs |-> <<>>, rules |-> <<>>, lbs |-> <<>>,
     zones |-> <<"z1", "z2">>,
     tags |-> {}, attached |-> {}, remoteTyping |-> "typed",
     nextID |-> 1, quota |-> MaxCreated]

IsCreate(api) ==
    api \in {"CreateVPC", "CreateImage", "CreatePublicGateway", "CreateSubnet",
             "CreateSecurityGroup", "CreateSecurityGroupRule", "CreateLoadBalancer"}

\* The Create* requests of a call log that succeeded.
Creates(cs) == SelectSeq(cs, LAMBDA c : IsCreate(c.api) /\ c.ok)

\* The Create* requests of a call log, successful or not.
CreatesIssued(cs) == SelectSeq(cs, LAMBDA c : IsCreate(c.api))

RECURSIVE Tally(_, _, _)
Tally(h, cs, i) ==
    IF i > Len(cs) THEN h
    ELSE LET key == <<cs[i].api, cs[i].arg, cs[i].k>>
         IN  Tally(MapPut(h, key, MapGet(h, key, 0) + 1), cs, i + 1)

Outcome(r) == IF r.err THEN "error" ELSE IF r.requeue THEN "requeue" ELSE "done"

Ops == {"ReconcileResourceGroup", "ReconcileVPC", "ReconcileVPCCustomImage",
        "ReconcileSubnets", "ReconcileSecurityGroups", "ReconcileLoadBalancers", "Reconcile",
        "TagResource", "reconcileSecurityGroupRule"}

\* What the passes so far did: the successful creates by request, the last
\* outcome of each operation, and the outcome of the previous pass of the
\* operation that ran last.
EmptyHist == [created |-> EmptyMap, outcome |-> [o \in Ops |-> "none"], before |-> "none"]

\* One reconcile pass: the method runs to completion and its result is kept.
Pass(op, r, f) ==
    /\ spec' = r.w.spec
    /\ status' = r.w.status
    /\ cloud' = r.w.cloud
    /\ calls' = r.w.calls
    /\ fault' = f
    /\ ret' = [op |-> op, requeue |-> r.requeue, err |-> r.err]
    /\ hist' = [created |-> Tally(hist.created, Creates(r.w.calls), 1),
                outcome |-> [hist.outcome EXCEPT ![op] = Outcome(r)],
                before |-> hist.outcome[op]]
    /\ UNCHANGED stopOnRequeue

\* A step of the cloud alone: no pass runs.
CloudStep ==
    /\ calls' = <<>>
    /\ fault' = "none"
    /\ ret' = [op |-> "cloud", requeue |-> FALSE, err |-> FALSE]
    /\ UNCHANGED <<spec, status, hist, stopOnRequeue>>

InitCommon ==
    /\ calls = <<>>
    /\ fault = "none"
    /\ ret = [op |-> "none", requeue |-> FALSE, err |-> FALSE]
    /\ hist = EmptyHist

(***************************************************************************)
(* SpecVPC: the resource group and VPC reconcilers against one account.    *)
(***************************************************************************)
VPCFaults == {"none", "ListResourceGroups", "GetVPCByName", "GetVPC", "CreateVPC",
              "ListTags", "CreateTag", "AttachTag"}

\* A VPC that was in the account before the first pass.
OldVPC(name, st) ==
    [id |-> "x1", name |-> name, crn |-> "crn:x1", status |-> st, resourceGroup |-> "rg-id"]

InitVPC ==
    /\ InitCommon
    /\ stopOnRequeue = TRUE
    /\ status = EmptyStatus
    /\ \E v \in {None, Some([id |-> Nil, name |-> "c1-vpc"]), Some([id |-> Nil, name |-> "byo-vpc"]),
                 Some([id |-> "x1", name |-> Nil])},
          g \in {"rg", ""} :
          spec = [BaseSpec EXCEPT !.network.vpc = v, !.resourceGroup = g]
    /\ \E vs \in {<<>>, <<OldVPC("c1-vpc", "available")>>, <<OldVPC("byo-vpc", "pending")>>},
          gs \in {<<>>, <<[id |-> "rg-id", name |-> "rg"]>>,
                  <<[id |-> "rg-id", name |-> "rg"], [id |-> "rg-id2", name |-> "rg"]>>,
                  <<[id |-> "c1-id", name |-> "c1"]>>},
          ts \in {{}, {ClusterName}} :
          cloud = [BaseCloud EXCEPT !.vpcs = vs, !.rgs = gs, !.tags = ts]

ReconcileResourceGroupPass ==
    \E f \in {"none", "ListResourceGroups"} :
        Pass("ReconcileResourceGroup", ReconcileResourceGroup(World(f)), f)

ReconcileVPCPass ==
    \E f \in VPCFaults : Pass("ReconcileVPC", ReconcileVPC(World(f)), f)

\* The cloud finishes provisioning a VPC.
VPCBecomesAvailable ==
    /\ \E i \in 1..Len(cloud.vpcs) :
          /\ cloud.vpcs[i].status = "pending"
          /\ cloud' = [cloud EXCEPT !.vpcs[i].status = "available"]
    /\ CloudStep

NextVPC == ReconcileResourceGroupPass \/ ReconcileVPCPass \/ VPCBecomesAvailable

SpecVPC == InitVPC /\ [][NextVPC]_vars

(***************************************************************************)
(* Claims about the VPC and resource-group reconcilers (SpecVPC).          *)
(***************************************************************************)
NamedVPCs(c, name) == SelectSeq(c.vpcs, LAMBDA v : v.name = name)

\* C1: CreateVPC is never issued while a VPC with the desired (or generated
\* default) name already exists in the account: in every pass, each CreateVPC
\* request names a VPC that did not exist when the pass started.
C1_NoCreateVPCWhileNameExists ==
    [][\A i \in 1..Len(calls') :
          calls'[i].api = "CreateVPC" => NamedVPCs(cloud, calls'[i].arg) = <<>>]_vars

\* The resource group createVPC needs can be resolved.
ResourceGroupResolves ==
    \/ (status.resourceGroup # None /\ status.resourceGroup[1].id # "")
    \/ Len(SelectSeq(cloud.rgs, LAMBDA g : g.name = (IF spec.resourceGroup = "" THEN spec.name
                                                     ELSE spec.resourceGroup))) = 1

\* C7: the two-pass VPC scenario.  First pass (nothing cached, name c1-vpc
\* declared, no such VPC in the account, every request succeeding): exactly
\* one CreateVPC, the new VPC tagged with the cluster name, {id, ready=false}
\* cached, requeue=true.  A later pass that finds the cached VPC Available:
\* no create, ready=true cached, requeue=false.
C7_VPCTwoPassScenario ==
    [][/\ ( /\ ret'.op = "ReconcileVPC" /\ fault' = "none"
            /\ status.vpc = None
            /\ spec.network.vpc = Some([id |-> Nil, name |-> "c1-vpc"])
            /\ NamedVPCs(cloud, "c1-vpc") = <<>>
            /\ ResourceGroupResolves /\ cloud.nextID <= cloud.quota )
          => /\ Len(CreatesIssued(calls')) = 1
             /\ CreatesIssued(calls')[1].api = "CreateVPC"
             /\ CreatesIssued(calls')[1].arg = "c1-vpc"
             /\ Len(NamedVPCs(cloud', "c1-vpc")) = 1
             /\ <<NamedVPCs(cloud', "c1-vpc")[1].crn, ClusterName>> \in cloud'.attached
             /\ status'.vpc = Some([id |-> NamedVPCs(cloud', "c1-vpc")[1].id,
                                    name |-> "c1-vpc", ready |-> FALSE])
             /\ ret'.requeue /\ ~ret'.err
       /\ ( /\ ret'.op = "ReconcileVPC" /\ fault' = "none"
            /\ status.vpc # None
            /\ \E i \in 1..Len(cloud.vpcs) :
                  cloud.vpcs[i].id = status.vpc[1].id /\ cloud.vpcs[i].status = "available" )
          => /\ CreatesIssued(calls') = <<>>
             /\ status'.vpc # None /\ status'.vpc[1].id = status.vpc[1].id
             /\ status'.vpc[1].ready
             /\ ~ret'.requeue /\ ~ret'.err]_vars

\* C7 witness: the scenario ran to its end: the VPC c1-vpc was created once by
\* an earlier pass and the last pass cached it ready without requeue.
C7_Witness ==
    /\ ret.op = "ReconcileVPC" /\ ~ret.requeue /\ ~ret.err
    /\ spec.network.vpc # None /\ spec.network.vpc[1].name = "c1-vpc"
    /\ MapGet(hist.created, <<"CreateVPC", "c1-vpc", <<>>>>, 0) = 1
    /\ status.vpc # None /\ status.vpc[1].ready /\ status.vpc[1].id = "r1"

\* The resource groups the list-by-name request of GetResourceGroupID returns.
ListedResourceGroups ==
    SelectSeq(cloud.rgs, LAMBDA g : g.name = (IF spec.resourceGroup = "" THEN spec.name
                                              ELSE spec.resourceGroup))

\* C10: with no resource-group ID cached, ReconcileResourceGroup succeeds
\* exactly when the list-by-name request succeeds and returns one resource
\* group, whose ID it caches; with zero or several matches it returns an
\* error and leaves the status cache as it was.
C10_ResourceGroupExactlyOne ==
    [][( /\ ret'.op = "ReconcileResourceGroup"
         /\ (status.resourceGroup = None \/ status.resourceGroup[1].id = "") )
       => /\ ~ret'.err <=> (Len(ListedResourceGroups) = 1 /\ fault' # "ListResourceGroups")
          /\ ret'.err => status' = status
          /\ ~ret'.err => /\ status'.resourceGroup # None
                          /\ status'.resourceGroup[1].id = ListedResourceGroups[1].id]_vars

\* C10 witness: a pass failed on an ambiguous name (two resource groups
\* listed) and cached nothing.
C10_Witness ==
    /\ ret.op = "ReconcileResourceGroup" /\ ret.err /\ fault = "none"
    /\ Len(ListedResourceGroups) = 2
    /\ status.resourceGroup = None

(***************************************************************************)
(* The custom-image reconciler on its own (SpecImage).                     *)
(***************************************************************************)
ImageFaults == {"none", "ListResourceGroups", "GetImageByName", "GetImage", "CreateImage",
                "AttachTag"}

ImageSpecs ==
    {None} \cup
    { x \in { Some([name |-> "img", resourceGroup |-> rg, operatingSystem |-> os,
                     cos |-> cos, cosBucketRegion |-> br]) :
        rg \in {None, Some([id |-> "img-rg-id", name |-> Nil]),
                Some([id |-> "", name |-> "img-rg"]), Some([id |-> "", name |-> Nil])},
        os \in {Nil, "rhcos"}, cos \in BOOLEAN, br \in {Nil, "us"} } :
        (x[1].operatingSystem = Nil \/ ~x[1].cos)
           => (x[1].cosBucketRegion = Nil /\ x[1].resourceGroup = None) }

OldImage == [id |-> "x2", name |-> "img", crn |-> "crn:x2", status |-> "pending",
             resourceGroup |-> "rg-id"]

InitImage ==
    /\ InitCommon
    /\ stopOnRequeue = TRUE
    /\ \E im \in ImageSpecs, nrg \in {Nil, "net-rg"} :
          spec = [BaseSpec EXCEPT !.image = im, !.network.resourceGroup = nrg]
    /\ \E st \in {None, Some([id |-> "", name |-> "img", ready |-> FALSE])},
          ims \in {<<>>, <<OldImage>>} :
          /\ (ims # <<>> => st # None)
          /\ status = [EmptyStatus EXCEPT !.image = st]
          /\ cloud = [BaseCloud EXCEPT
                         !.rgs = <<[id |-> "rg-id", name |-> "rg"],
                                   [id |-> "net-rg-id", name |-> "net-rg"],
                                   [id |-> "img-rg-id2", name |-> "img-rg"]>>,
                         !.images = ims]

ReconcileVPCCustomImagePass ==
    \E f \in ImageFaults : Pass("ReconcileVPCCustomImage", ReconcileVPCCustomImage(World(f)), f)

ImageBecomesAvailable ==
    /\ \E i \in 1..Len(cloud.images) :
          /\ cloud.images[i].status = "pending"
          /\ cloud' = [cloud EXCEPT !.images[i].status = "available"]
    /\ CloudStep

NextImage == ReconcileResourceGroupPass \/ ReconcileVPCCustomImagePass \/ ImageBecomesAvailable

SpecImage == InitImage /\ [][NextImage]_vars

\* The ID the resource-group service resolves a name to (one match needed).
ResourceGroupIDOf(c, name) ==
    LET m == SelectSeq(c.rgs, LAMBDA g : g.name = name)
    IN  IF Len(m) = 1 THEN m[1].id ELSE Nil

\* The cluster's resource-group ID as a pass starting now resolves it.
ClusterResourceGroupID ==
    IF status.resourceGroup # None /\ status.resourceGroup[1].id # ""
    THEN status.resourceGroup[1].id
    ELSE ResourceGroupIDOf(cloud, IF spec.resourceGroup = "" THEN spec.name ELSE spec.resourceGroup)

\* The resource group of the image spec's own reference.
ImageSpecResourceGroupID ==
    IF spec.image[1].resourceGroup[1].id # "" THEN spec.image[1].resourceGroup[1].id
    ELSE IF spec.image[1].resourceGroup[1].name # Nil
    THEN ResourceGroupIDOf(cloud, spec.image[1].resourceGroup[1].name)
    ELSE Nil

\* The step is a custom-image pass that issued a CreateImage request.
ImageCreateStep ==
    /\ ret'.op = "ReconcileVPCCustomImage"
    /\ \E i \in 1..Len(calls') : calls'[i].api = "CreateImage"

CreateImageRequest == SelectSeq(calls', LAMBDA c : c.api = "CreateImage")[1]

\* C9 as stated: the image's resource group is the image spec's own reference
\* if present, otherwise the network resource group if one is declared,
\* otherwise the cluster resource group.
C9_ThreeLevelChain ==
    [][ImageCreateStep =>
         CreateImageRequest.k.resourceGroup =
            (IF spec.image[1].resourceGroup # None THEN ImageSpecResourceGroupID
             ELSE IF spec.network.resourceGroup # Nil
             THEN ResourceGroupIDOf(cloud, spec.network.resourceGroup)
             ELSE ClusterResourceGroupID)]_vars

\* C9 amended: the chain has two levels.  The image is created in the image
\* spec's own resource group (its ID, else the group its name resolves to) if
\* the reference is present, and in the cluster resource group otherwise; a
\* declared network resource group is never consulted.
C9_TwoLevelChain ==
    [][ImageCreateStep =>
         /\ CreateImageRequest.k.resourceGroup =
               (IF spec.image[1].resourceGroup # None THEN ImageSpecResourceGroupID
                ELSE ClusterResourceGroupID)
         /\ status'.networkResourceGroup = None
         /\ \A i \in 1..Len(calls') :
               calls'[i].api = "ListResourceGroups" => calls'[i].arg # "net-rg"]_vars

\* C9 witness: an image was created in the cluster resource group although a
\* network resource group is declared and the image spec names none.
C9_Witness ==
    /\ ret.op = "ReconcileVPCCustomImage" /\ ret.requeue
    /\ spec.image # None /\ spec.image[1].resourceGroup = None
    /\ spec.network.resourceGroup = "net-rg"
    /\ \E i \in 1..Len(calls) :
          /\ calls[i].api = "CreateImage" /\ calls[i].ok
          /\ calls[i].k.resourceGroup = "rg-id"
    /\ status.image # None /\ status.image[1].id = "r1"

(***************************************************************************)
(* The subnet reconciler on its own (SpecSubnets).                         *)
(***************************************************************************)
SubnetFaults == {"none", "GetVPCSubnetByName", "GetSubnet", "CreateSubnet", "AttachTag",
                 "GetZonesByRegion"}

OldSubnet(st) == [id |-> "s1", crn |-> "crn:s1", name |-> "cp-a", cidr |-> "10.0.0.0/24",
                  status |-> st, zone |-> "z1",
                  vpc |-> "x1", resourceGroup |-> "rg-id", publicGateway |-> "g1"]

\* A second subnet of the account.
OtherSubnet == [OldSubnet("available") EXCEPT !.id = "s2", !.crn = "crn:s2", !.name = "cp-b",
                                              !.cidr = "10.0.1.0/24"]

\* A public gateway of zone z1 that carries the cluster's gateway name and
\* was in the account before the first pass.
OldGateway == [id |-> "g1", crn |-> "crn:g1", name |-> "c1-pgateway-z1", zone |-> "z1",
               vpc |-> "x1", resourceGroup |-> "rg-id"]

\* The declared control-plane and worker subnets: by name only, by ID and
\* name, by ID only, or none (one generated per zone).
SubnetSpecs ==
    { <<(<<[id |-> Nil, name |-> "cp-a", zone |-> "z1"]>>), <<>> >>,
      <<(<<[id |-> "s1", name |-> "cp-a", zone |-> "z1"]>>),
        (<<[id |-> Nil, name |-> "wk-a", zone |-> "z1"]>>)>>,
      <<(<<[id |-> "s1", name |-> Nil, zone |-> "z1"]>>), <<>> >>,
      << <<>>, <<>> >> }

InitSubnets ==
    /\ InitCommon
    /\ stopOnRequeue = TRUE
    /\ \E d \in SubnetSpecs, v \in {"cached", "declared", "none"} :
          /\ spec = [BaseSpec EXCEPT
                        !.network.controlPlaneSubnets = d[1],
                        !.network.workerSubnets = d[2],
                        !.network.vpc = IF v = "declared"
                                        THEN Some([id |-> "x1", name |-> Nil]) ELSE None]
          /\ status = IF v = "cached"
                      THEN [EmptyStatus EXCEPT
                               !.networkStatus = TRUE,
                               !.vpc = Some([id |-> "x1", name |-> "c1-vpc", ready |-> TRUE])]
                      ELSE EmptyStatus
    /\ \E sn \in {<<>>, <<OldSubnet("pending")>>, <<OldSubnet("available")>>},
          pg \in {<<>>, <<OldGateway>>} :
          cloud = [BaseCloud EXCEPT !.vpcs = <<OldVPC("c1-vpc", "available")>>,
                                    !.subnets = sn, !.pgws = pg, !.zones = <<"z1">>,
                                    !.tags = {ClusterName}]

ReconcileSubnetsPass ==
    \E f \in SubnetFaults : Pass("ReconcileSubnets", ReconcileSubnets(World(f)), f)

SubnetBecomesAvailable ==
    /\ \E i \in 1..Len(cloud.subnets) :
          /\ cloud.subnets[i].status = "pending"
          /\ cloud' = [cloud EXCEPT !.subnets[i].status = "available"]
    /\ CloudStep

NextSubnets == ReconcileSubnetsPass \/ SubnetBecomesAvailable

SpecSubnets == InitSubnets /\ [][NextSubnets]_vars

\* The subnets a pass starting now reconciles for a role: the declared ones,
\* or one generated per zone.
SubnetsOfRole(isControlPlane) ==
    LET declared == IF isControlPlane THEN spec.network.controlPlaneSubnets
                    ELSE spec.network.workerSubnets
    IN  IF Len(declared) # 0 THEN declared
        ELSE [i \in 1..Len(cloud.zones) |->
                [id |-> Nil, name |-> SprintfZone(SprintfSubnet(spec.name), cloud.zones[i]),
                 zone |-> cloud.zones[i]]]

\* The role's status bucket holds the name with ready=true.
CachedReady(isControlPlane, name) ==
    LET bucket == IF isControlPlane THEN status.controlPlaneSubnets ELSE status.workerSubnets
    IN  status.networkStatus /\ name \in DOMAIN bucket /\ bucket[name].ready

\* Every role that reconciles a subnet of this name has it cached ready.
CachedReadyInItsRoles(name) ==
    \A role \in BOOLEAN :
       (\E i \in 1..Len(SubnetsOfRole(role)) : SubnetsOfRole(role)[i].name = name)
          => CachedReady(role, name)

\* The IDs under which a pass could fetch the subnet.
SubnetFetchIDs(d) ==
    (IF d.id # Nil THEN {d.id} ELSE {})
       \cup {cloud.subnets[j].id : j \in {j \in 1..Len(cloud.subnets) : cloud.subnets[j].name = d.name}}

RequestsOf(cs, api, args) == SelectSeq(cs, LAMBDA c : c.api = api /\ c.arg \in args)

\* C8 as stated: a subnet cached ready=true at the start of a pass is the
\* subject of no get-subnet-by-ID and no get-subnet-by-name request in that
\* pass, whether declared by ID or by name only.
C8_NoFetchWhenCachedReady ==
    [][ret'.op = "ReconcileSubnets" =>
         \A role \in BOOLEAN : \A i \in 1..Len(SubnetsOfRole(role)) :
            LET d == SubnetsOfRole(role)[i]
            IN  (d.name # Nil /\ CachedReadyInItsRoles(d.name))
                   => /\ RequestsOf(calls', "GetSubnet", SubnetFetchIDs(d)) = <<>>
                      /\ RequestsOf(calls', "GetVPCSubnetByName", {d.name}) = <<>>]_vars

\* C8 amended: a subnet cached ready=true at the start of a pass is never
\* fetched by ID in that pass.  Declared with an ID it is not looked up by
\* name either; declared by name only it is still looked up by name, once,
\* before the cache is consulted, by every pass that completes.
C8_NoFetchByIDWhenCachedReady ==
    [][ret'.op = "ReconcileSubnets" =>
         \A role \in BOOLEAN : \A i \in 1..Len(SubnetsOfRole(role)) :
            LET d == SubnetsOfRole(role)[i]
            IN  (d.name # Nil /\ CachedReadyInItsRoles(d.name))
                   => /\ RequestsOf(calls', "GetSubnet", SubnetFetchIDs(d)) = <<>>
                      /\ d.id # Nil
                            => RequestsOf(calls', "GetVPCSubnetByName", {d.name}) = <<>>
                      /\ (d.id = Nil /\ ~ret'.err)
                            => Len(RequestsOf(calls', "GetVPCSubnetByName", {d.name}))
                                  = Cardinality({r \in BOOLEAN :
                                       \E j \in 1..Len(SubnetsOfRole(r)) :
                                          SubnetsOfRole(r)[j].name = d.name})]_vars

\* C8 witness: a completed pass over the name-only control-plane subnet cp-a,
\* cached ready, that looked it up by name and did not fetch it by ID.
C8_Witness ==
    /\ ret.op = "ReconcileSubnets" /\ ~ret.err /\ ~ret.requeue
    /\ Len(spec.network.controlPlaneSubnets) = 1
    /\ spec.network.controlPlaneSubnets[1].id = Nil
    /\ CachedReady(TRUE, "cp-a")
    /\ Len(RequestsOf(calls, "GetVPCSubnetByName", {"cp-a"})) = 1
    /\ \A i \in 1..Len(calls) : calls[i].api # "GetSubnet"

(***************************************************************************)
(* SpecSG: the security-group reconciler against one account.              *)
(***************************************************************************)
SGFaults == {"none", "GetSecurityGroupByName", "GetSecurityGroup", "CreateSecurityGroup",
             "AttachTag", "ListSecurityGroupRules", "CreateSecurityGroupRule",
             "GetVPCSubnetByName"}

\* infrav1beta2.VPCSecurityGroupRuleRemote values
RemoteAny ==
    [remoteType |-> "any", address |-> Nil, cidrSubnetName |-> Nil, securityGroupName |-> Nil]

RemoteAddress(a) ==
    [remoteType |-> "address", address |-> a, cidrSubnetName |-> Nil,
     securityGroupName |-> Nil]

RemoteCIDR(subnetName) ==
    [remoteType |-> "cidr", address |-> Nil, cidrSubnetName |-> subnetName,
     securityGroupName |-> Nil]

RemoteSG(name) ==
    [remoteType |-> "sg", address |-> Nil, cidrSubnetName |-> Nil, securityGroupName |-> name]

\* An infrav1beta2.VPCSecurityGroupRule: its direction and the fields of the
\* prototype the direction selects (Source for inbound, Destination for
\* outbound).
DeclaredRule(direction, protocol, portRange, remotes) ==
    [direction |-> direction, protocol |-> protocol, icmpCode |-> None, icmpType |-> None,
     portRange |-> portRange, remotes |-> remotes]

Port(n) == Some([minimumPort |-> n, maximumPort |-> n])

\* The rule lists a group may declare.
RuleSets ==
    { <<DeclaredRule("inbound", "tcp", Port(6443), <<RemoteAny>>)>>,
      <<DeclaredRule("inbound", "icmp", None, <<RemoteAddress("a1"), RemoteAddress("a2")>>)>>,
      <<DeclaredRule("inbound", "tcp", Port(22), <<RemoteAddress("a1"), RemoteAddress("a2")>>)>>,
      <<DeclaredRule("inbound", "udp", Port(4789), <<RemoteSG("sg-a")>>),
        DeclaredRule("outbound", "all", None, <<RemoteAny>>)>>,
      <<DeclaredRule("inbound", "tcp", None, <<RemoteCIDR("cp-a")>>)>> }

\* The group sg-a that was in the account before the first pass.
OldSecurityGroup ==
    [id |-> "g1", crn |-> "crn:g1", name |-> "sg-a", vpc |-> "x1", resourceGroup |-> "rg-id"]

\* The declared groups: sg-a by ID, sg-a by name only, or sg-a by ID next to
\* a group sg-b that is declared by name only.
GroupSpecs(rules) ==
    { <<[id |-> "g1", name |-> "sg-a", rules |-> rules]>>,
      <<[id |-> Nil, name |-> "sg-a", rules |-> rules]>>,
      <<[id |-> "g1", name |-> "sg-a", rules |-> rules],
        [id |-> Nil, name |-> "sg-b", rules |-> rules]>> }

\* The remote prototypes of the rules sg-a may hold before the first pass.
OldRemoteCIDR(block) == [kind |-> "cidr", cidrBlock |-> block, address |-> Nil, crn |-> Nil]

OldRemoteIP(a) == [kind |-> "ip", cidrBlock |-> Nil, address |-> a, crn |-> Nil]

\* The rules sg-a may hold before the first pass, as rule prototypes.
OldRules ==
    { <<>>,
      <<RulePrototype(DeclaredRule("inbound", "tcp", Port(6443), <<>>),
                      OldRemoteCIDR(CIDRBlockAny))>>,
      <<RulePrototype(DeclaredRule("inbound", "tcp", Port(6443), <<>>),
                      OldRemoteIP(CIDRBlockAny))>>,
      <<RulePrototype(DeclaredRule("inbound", "icmp", None, <<>>), OldRemoteIP("a1"))>>,
      <<RulePrototype(DeclaredRule("inbound", "tcp", Port(22), <<>>), OldRemoteIP("a1"))>> }

InitSG ==
    /\ InitCommon
    /\ stopOnRequeue = TRUE
    /\ \E rs \in RuleSets : \E d \in GroupSpecs(rs) :
          spec = [BaseSpec EXCEPT !.network.securityGroups = d]
    /\ status = [EmptyStatus EXCEPT
                    !.networkStatus = TRUE,
                    !.vpc = Some([id |-> "x1", name |-> "c1-vpc", ready |-> TRUE])]
    /\ \E old \in OldRules, typing \in {"typed", "generic"}, gs \in {<<>>, <<OldSecurityGroup>>} :
          /\ spec.network.securityGroups[1].id # Nil => gs # <<>>
          /\ gs = <<>> => old = <<>>
          /\ cloud = [BaseCloud EXCEPT
                         !.vpcs = <<OldVPC("c1-vpc", "available")>>,
                         !.subnets = <<OldSubnet("available")>>,
                         !.sgs = gs, !.tags = {ClusterName}, !.remoteTyping = typing,
                         !.rules = [i \in 1..Len(old) |->
                                       ListedRule([BaseCloud EXCEPT !.remoteTyping = typing],
                                                  "o1", "g1", old[i])]]

ReconcileSecurityGroupsPass ==
    \E f \in SGFaults :
        Pass("ReconcileSecurityGroups", ReconcileSecurityGroups(World(f)), f)

NextSG == ReconcileSecurityGroupsPass

SpecSG == InitSG /\ [][NextSG]_vars

(***************************************************************************)
(* Claims on the security-group reconciler.                                *)
(***************************************************************************)
\* C3 as stated: with an unchanged spec, over any number of
\* ReconcileSecurityGroups passes, at most one CreateSecurityGroupRule request
\* succeeds per (group, declared rule, remote), whatever the protocol, port
\* range, ICMP type/code and remote kind of the rule.
C3_AtMostOneCreatePerRuleRemote ==
    \A key \in DOMAIN hist.created :
        key[1] = "CreateSecurityGroupRule" => hist.created[key] <= 1

\* Remote equivalence as the specification defines it: Any against the
\* sentinel block, Address by string, CIDR by the named subnet's block, a
\* group reference by the named group.
SpecRemoteEquivalent(c, remote, live) ==
    CASE remote.remoteType = "any" ->
           live.cidrBlock = CIDRBlockAny \/ live.address = CIDRBlockAny
      [] remote.remoteType = "address" -> live.address = remote.address
      [] remote.remoteType = "cidr" ->
           \E i \in 1..Len(c.subnets) : /\ c.subnets[i].name = remote.cidrSubnetName
                                        /\ c.subnets[i].cidr = live.cidrBlock
      [] remote.remoteType = "sg" ->
           \E i \in 1..Len(c.sgs) : /\ c.sgs[i].name = remote.securityGroupName
                                    /\ c.sgs[i].crn = live.crn
      [] OTHER -> FALSE

\* A live rule matches a declared rule and remote as the specification
\* defines it: same protocol and direction, equivalent remote, for tcp/udp
\* the same port range, for icmp the same type and code when both are
\* declared.
SpecRuleMatches(c, rule, remote, live) ==
    /\ rule.protocol = live.protocol
    /\ rule.direction = live.direction
    /\ SpecRemoteEquivalent(c, remote, live.remote)
    /\ rule.protocol \in {"tcp", "udp"}
          => IF rule.portRange = None THEN live.portMin = None /\ live.portMax = None
             ELSE /\ live.portMin = Some(rule.portRange[1].minimumPort)
                  /\ live.portMax = Some(rule.portRange[1].maximumPort)
    /\ (rule.protocol = "icmp" /\ rule.icmpCode # None /\ rule.icmpType # None)
          => live.code = rule.icmpCode /\ live.type = rule.icmpType

LiveRulesOf(c, securityGroupID) == SelectSeq(c.rules, LAMBDA x : x.group = securityGroupID)

RuleCreatesFor(cs, securityGroupID) ==
    SelectSeq(cs, LAMBDA c : c.api = "CreateSecurityGroupRule" /\ c.arg = securityGroupID)

\* C4 as stated: when a pass that ends without error reconciles a declared
\* rule with remotes [R1, R2] of a group that has live rules, one of them
\* matching R1 and none matching R2, it issues exactly one
\* CreateSecurityGroupRule request for the group, with the remote of R2.
C4_OneCreateForUnmatchedRemote ==
    [][\A i \in 1..Len(spec.network.securityGroups) :
         LET sg == spec.network.securityGroups[i]
             id == sg.id
             rule == sg.rules[1]
             live == LiveRulesOf(cloud, id)
         IN  ( /\ ret'.op = "ReconcileSecurityGroups" /\ ~ret'.err
               /\ id # Nil /\ Len(sg.rules) = 1 /\ Len(rule.remotes) = 2
               /\ RequestsOf(calls', "ListSecurityGroupRules", {id}) # <<>>
               /\ \E j \in 1..Len(live) :
                     SpecRuleMatches(cloud, rule, rule.remotes[1], live[j])
               /\ \A j \in 1..Len(live) :
                     ~SpecRuleMatches(cloud, rule, rule.remotes[2], live[j]) )
             => /\ Len(RuleCreatesFor(calls', id)) = 1
                /\ RuleCreatesFor(calls', id)[1].k.remote.address = rule.remotes[2].address]_vars

\* A CreateSecurityGroup request of the call log succeeded.
GroupCreated(cs) == \E i \in 1..Len(cs) : cs[i].api = "CreateSecurityGroup" /\ cs[i].ok

RuleRequests(cs) ==
    SelectSeq(cs, LAMBDA c : c.api \in {"ListSecurityGroupRules", "CreateSecurityGroupRule"})

\* C5 as stated: a ReconcileSecurityGroups pass that created a group returns
\* requeue=true and issues no ListSecurityGroupRules and no
\* CreateSecurityGroupRule request for any group.
C5_PhaseSeparation ==
    (ret.op = "ReconcileSecurityGroups" /\ GroupCreated(calls))
        => /\ ret.requeue
           /\ RuleRequests(calls) = <<>>

\* C5 amended: a ReconcileSecurityGroups pass that created a group issues no
\* ListSecurityGroupRules and no CreateSecurityGroupRule request for any
\* group, and returns either requeue=true or, when tagging the new group or
\* reconciling a later group of phase 1 failed, an error with requeue=false.
C5_PhaseSeparationOrError ==
    (ret.op = "ReconcileSecurityGroups" /\ GroupCreated(calls))
        => /\ ret.requeue # ret.err
           /\ RuleRequests(calls) = <<>>

\* C5 witness: a pass created sg-b and asked for a requeue although sg-a,
\* declared by ID with rules, was already resolved in phase 1.
C5_Witness ==
    /\ ret.op = "ReconcileSecurityGroups" /\ GroupCreated(calls)
    /\ ret.requeue /\ ~ret.err
    /\ Len(spec.network.securityGroups) = 2
    /\ spec.network.securityGroups[1].id = "g1"
    /\ spec.network.securityGroups[1].rules # <<>>
    /\ RequestsOf(calls, "GetSecurityGroup", {"g1"}) # <<>>

\* C6 as stated: sg-a exists with the one live rule inbound TCP 6443 from
\* Any and declares the one rule TCP 6443 from [Any]; a pass whose requests
\* all succeed issues no create request and returns requeue=false.
C6_MatchingRuleNoCreateNoRequeue ==
    [][( /\ ret'.op = "ReconcileSecurityGroups" /\ fault' = "none"
         /\ Len(spec.network.securityGroups) = 1
         /\ spec.network.securityGroups[1].name = "sg-a"
         /\ spec.network.securityGroups[1].rules
               = <<DeclaredRule("inbound", "tcp", Port(6443), <<RemoteAny>>)>>
         /\ cloud.sgs = <<OldSecurityGroup>>
         /\ Len(cloud.rules) = 1
         /\ SpecRuleMatches(cloud, DeclaredRule("inbound", "tcp", Port(6443), <<RemoteAny>>),
                            RemoteAny, cloud.rules[1]) )
       => /\ CreatesIssued(calls') = <<>>
          /\ ~ret'.requeue /\ ~ret'.err]_vars

(***************************************************************************)
(* Spec: whole reconcile passes against one account.                       *)
(***************************************************************************)
Faults == {"none", "AttachTag", "CreateLoadBalancer", "GetLoadBalancerByName",
           "ListSecurityGroupRules", "GetVPC"}

OldLoadBalancer ==
    [id |-> "l1", crn |-> "crn:l1", name |-> "lb-0", provisioningStatus |-> "active",
     hostname |-> "h0.lb", options |-> <<>>]

\* The backend pool the installer declares for a load balancer
\* (buildPrivateLoadBalancer, buildPublicLoadBalancer).
DeclaredBackendPool(name) ==
    [name |-> name, algorithm |-> "round_robin", protocol |-> "tcp", healthDelay |-> 60,
     healthRetries |-> 5, healthTimeout |-> 30, healthType |-> "https",
     healthMonitorURL |-> "/readyz"]

DeclaredLoadBalancer(id, name) ==
    [id |-> id, name |-> name, public |-> Some(TRUE), additionalListeners |-> <<>>,
     backendPools |-> <<DeclaredBackendPool(name)>>]

DeclaredGroup(id, name, rules) == [id |-> id, name |-> name, rules |-> rules]

\* The clusters reconciled: what each declares by the ID of a resource the
\* account already holds, and what it leaves to be created (a VPC; a subnet
\* and gateway per zone; the rules of a group; the group sg-b; an image and
\* two load balancers).  image tells whether the image named in the status
\* is already in the account.
Clusters ==
    LET byName == Some([id |-> Nil, name |-> "c1-vpc"])
        byID == Some([id |-> "x1", name |-> Nil])
        subnet == <<[id |-> "s1", name |-> "cp-a", zone |-> "z1"]>>
        lb0 == <<DeclaredLoadBalancer("l1", "")>>
    IN  { [vpc |-> byName, subnets |-> subnet, groups |-> <<>>, lbs |-> lb0, image |-> TRUE],
          [vpc |-> byID, subnets |-> <<>>, groups |-> <<>>, lbs |-> lb0, image |-> TRUE],
          [vpc |-> byID, subnets |-> subnet,
           groups |-> <<DeclaredGroup("g1", "sg-a",
                           <<DeclaredRule("inbound", "tcp", Port(22),
                                          <<RemoteAddress("a1"), RemoteAddress("a2")>>)>>)>>,
           lbs |-> <<DeclaredLoadBalancer(Nil, "lb-a")>>, image |-> TRUE],
          [vpc |-> byID, subnets |-> subnet,
           groups |-> <<DeclaredGroup("g1", "sg-a",
                           <<DeclaredRule("inbound", "icmp", None, <<RemoteSG("sg-a")>>)>>)>>,
           lbs |-> lb0, image |-> TRUE],
          [vpc |-> byID, subnets |-> subnet,
           groups |-> <<DeclaredGroup(Nil, "sg-b", <<>>)>>, lbs |-> lb0, image |-> TRUE],
          [vpc |-> byID, subnets |-> subnet, groups |-> <<>>,
           lbs |-> <<DeclaredLoadBalancer(Nil, "lb-a"), DeclaredLoadBalancer(Nil, "lb-b")>>,
           image |-> FALSE] }

Init ==
    /\ InitCommon
    /\ stopOnRequeue \in BOOLEAN
    /\ \E c \in Clusters :
          /\ status = IF c.image
                      THEN [EmptyStatus EXCEPT
                               !.image = Some([id |-> "", name |-> "img", ready |-> FALSE])]
                      ELSE EmptyStatus
          /\ spec = [BaseSpec EXCEPT
                        !.network.vpc = c.vpc,
                        !.network.controlPlaneSubnets = c.subnets,
                        !.network.workerSubnets = c.subnets,
                        !.network.securityGroups = c.groups,
                        !.network.loadBalancers = c.lbs,
                        !.image = Some([name |-> "img", resourceGroup |-> None,
                                        operatingSystem |-> "rhcos", cos |-> TRUE,
                                        cosBucketRegion |-> "us"])]
          /\ cloud = [BaseCloud EXCEPT
                         !.vpcs = IF c.vpc[1].id = Nil THEN <<>>
                                  ELSE <<OldVPC("byo-vpc", "available")>>,
                         !.subnets = <<OldSubnet("available")>>,
                         !.sgs = <<OldSecurityGroup>>,
                         !.lbs = <<OldLoadBalancer>>,
                         !.images = IF c.image
                                    THEN <<[OldImage EXCEPT !.status = "available"]>>
                                    ELSE <<>>,
                         !.zones = <<"z1">>, !.tags = {ClusterName}]

ReconcilePass ==
    \E f \in Faults :
        Pass("Reconcile", Reconcile(World(f), 1, stopOnRequeue, FALSE), f)

\* The cloud finishes provisioning a load balancer.
LoadBalancerBecomesActive ==
    /\ \E i \in 1..Len(cloud.lbs) :
          /\ cloud.lbs[i].provisioningStatus = "create_pending"
          /\ cloud' = [cloud EXCEPT !.lbs[i].provisioningStatus = "active"]
    /\ CloudStep

Next ==
    \/ ReconcilePass
    \/ VPCBecomesAvailable
    \/ ImageBecomesAvailable
    \/ SubnetBecomesAvailable
    \/ LoadBalancerBecomesActive

Spec == Init /\ [][Next]_vars

\* C2 as stated: a whole reconcile pass that directly follows another that
\* ended without error, with the spec unchanged and the cloud changed by the
\* first pass only, issues no create request of any kind.
C2_SecondPassNoCreate ==
    [][(ret.op = "Reconcile" /\ ~ret.err /\ ret'.op = "Reconcile")
          => CreatesIssued(calls') = <<>>]_vars

\* C2 amended: a whole reconcile pass that directly follows a pass that
\* returned requeue=false and no error, with the spec unchanged, issues no
\* create request of any kind.  A pass that follows a requeue may go on to
\* create what the earlier pass left for it: the rules of a group it created,
\* the next missing load balancer.
C2_PassAfterDoneNoCreate ==
    [][(ret.op = "Reconcile" /\ ~ret.requeue /\ ~ret.err /\ ret'.op = "Reconcile")
          => CreatesIssued(calls') = <<>>]_vars

\* C2 witness: after earlier passes created resources, a pass returned done
\* and the pass that followed it returned done again without a create.
C2_Witness ==
    /\ ret.op = "Reconcile" /\ ~ret.requeue /\ ~ret.err
    /\ hist.before = "done"
    /\ hist.created # EmptyMap
    /\ calls # <<>> /\ CreatesIssued(calls) = <<>>

(***************************************************************************)
(* SpecLB: the load-balancer reconciler against one account.               *)
(***************************************************************************)
LBFaults == {"none", "GetLoadBalancerByName", "GetLoadBalancer", "CreateLoadBalancer",
             "ListResourceGroups", "GetVPCSubnetByName"}

\* machineConfigServerPort
MachineConfigServerPort == 22623

\* The load balancers a cluster may declare: up to three that are missing,
\* next to lb-0, which the account holds, by ID or by name; the last one
\* declares an additional listener.
LoadBalancerSpecs ==
    { <<>>,
      <<DeclaredLoadBalancer(Nil, "lb-a")>>,
      <<DeclaredLoadBalancer(Nil, "lb-a"), DeclaredLoadBalancer(Nil, "lb-b")>>,
      <<DeclaredLoadBalancer(Nil, "lb-a"), DeclaredLoadBalancer(Nil, "lb-b"),
        DeclaredLoadBalancer(Nil, "lb-c")>>,
      <<DeclaredLoadBalancer("l1", ""), DeclaredLoadBalancer(Nil, "lb-a")>>,
      <<DeclaredLoadBalancer(Nil, "lb-0"), DeclaredLoadBalancer(Nil, "lb-a"),
        DeclaredLoadBalancer(Nil, "lb-b")>>,
      <<DeclaredLoadBalancer(Nil, "")>>,
      <<[DeclaredLoadBalancer(Nil, "lb-a") EXCEPT
            !.additionalListeners = <<[port |-> MachineConfigServerPort]>>]>> }

\* The subnets a cluster declares and the subnet buckets of its status when
\* the load balancers are reconciled: subnets s1 and s2 declared with their
\* IDs, one for each role, cached or not; s1 declared for both roles, cached
\* or not; s1 cached under its ID
\* (as after its creation) and under its name; s1 declared by name next to a
\* worker subnet that does not exist yet; no subnet at all.
LoadBalancerSubnets ==
    LET byID == [id |-> "s1", name |-> "cp-a", zone |-> "z1"]
        byName == [id |-> Nil, name |-> "cp-a", zone |-> "z1"]
        other == [id |-> "s2", name |-> "cp-b", zone |-> "z1"]
        missing == [id |-> Nil, name |-> "wk-a", zone |-> "z1"]
        entry == [id |-> "s1", name |-> "cp-a", ready |-> TRUE]
        created == [id |-> "s1", name |-> "", ready |-> FALSE]
    IN  { [cp |-> <<byID>>, wk |-> <<other>>, networkStatus |-> FALSE,
           cpStatus |-> EmptyMap, wkStatus |-> EmptyMap],
          [cp |-> <<byID>>, wk |-> <<other>>, networkStatus |-> TRUE,
           cpStatus |-> MapPut(EmptyMap, "cp-a", entry),
           wkStatus |-> MapPut(EmptyMap, "cp-b", [id |-> "s2", name |-> "cp-b", ready |-> TRUE])],
          [cp |-> <<byID>>, wk |-> <<byID>>, networkStatus |-> FALSE,
           cpStatus |-> EmptyMap, wkStatus |-> EmptyMap],
          [cp |-> <<byID>>, wk |-> <<byID>>, networkStatus |-> TRUE,
           cpStatus |-> MapPut(EmptyMap, "cp-a", entry),
           wkStatus |-> MapPut(EmptyMap, "cp-a", entry)],
          [cp |-> <<byName>>, wk |-> <<>>, networkStatus |-> TRUE,
           cpStatus |-> MapPut(MapPut(EmptyMap, "s1", created), "cp-a", entry),
           wkStatus |-> EmptyMap],
          [cp |-> <<byName>>, wk |-> <<missing>>, networkStatus |-> FALSE,
           cpStatus |-> EmptyMap, wkStatus |-> EmptyMap],
          [cp |-> <<>>, wk |-> <<>>, networkStatus |-> FALSE,
           cpStatus |-> EmptyMap, wkStatus |-> EmptyMap] }

InitLB ==
    /\ InitCommon
    /\ stopOnRequeue = TRUE
    /\ \E d \in LoadBalancerSpecs, port \in {None, Some(6444)}, sn \in LoadBalancerSubnets :
          /\ spec = [BaseSpec EXCEPT
                        !.network.vpc = Some([id |-> "x1", name |-> Nil]),
                        !.network.controlPlaneSubnets = sn.cp,
                        !.network.workerSubnets = sn.wk,
                        !.network.loadBalancers = d,
                        !.apiServerPort = port]
          /\ status = [EmptyStatus EXCEPT
                          !.networkStatus = sn.networkStatus,
                          !.controlPlaneSubnets = sn.cpStatus,
                          !.workerSubnets = sn.wkStatus]
    /\ \E st \in {"active", "create_pending", "delete_pending"} :
          cloud = [BaseCloud EXCEPT
                      !.vpcs = <<OldVPC("c1-vpc", "available")>>,
                      !.subnets = <<OldSubnet("available"), OtherSubnet>>,
                      !.lbs = <<[OldLoadBalancer EXCEPT !.provisioningStatus = st]>>,
                      !.tags = {ClusterName}]

ReconcileLoadBalancersPass ==
    \E f \in LBFaults :
        Pass("ReconcileLoadBalancers", ReconcileLoadBalancers(World(f)), f)

NextLB == ReconcileLoadBalancersPass \/ LoadBalancerBecomesActive

SpecLB == InitLB /\ [][NextLB]_vars

(***************************************************************************)
(* Claims on the load-balancer reconciler (SpecLB).                        *)
(***************************************************************************)
\* The CreateLoadBalancer requests of a call log, successful or not.
LoadBalancerCreates(cs) == SelectSeq(cs, LAMBDA c : c.api = "CreateLoadBalancer")

\* C13: a ReconcileLoadBalancers pass issues at most one CreateLoadBalancer
\* request, however many declared load balancers are missing, and when the
\* request succeeds it is the last request of the pass, which returns
\* requeue=true.
C13_OneLoadBalancerCreatePerPass ==
    ret.op = "ReconcileLoadBalancers"
       => /\ Len(LoadBalancerCreates(calls)) <= 1
          /\ \A i \in 1..Len(calls) :
                (calls[i].api = "CreateLoadBalancer" /\ calls[i].ok)
                   => i = Len(calls) /\ ret.requeue /\ ~ret.err

\* C13 witness: three load balancers are declared and missing, and the pass
\* created the first of them only.
C13_Witness ==
    /\ ret.op = "ReconcileLoadBalancers" /\ ret.requeue
    /\ Len(spec.network.loadBalancers) = 3
    /\ \A i \in 1..3 : spec.network.loadBalancers[i].name \in {"lb-a", "lb-b", "lb-c"}
    /\ Len(Creates(calls)) = 1 /\ Creates(calls)[1].arg = "lb-a"
    /\ Len(cloud.lbs) = 2

(***************************************************************************)
(* Claims about tagging.                                                   *)
(***************************************************************************)
\* The CRNs of the resources of the account, of every kind that is tagged.
ResourceCRNs(c) ==
    { c.vpcs[i].crn : i \in 1..Len(c.vpcs) } \cup { c.images[i].crn : i \in 1..Len(c.images) }
       \cup { c.pgws[i].crn : i \in 1..Len(c.pgws) }
       \cup { c.subnets[i].crn : i \in 1..Len(c.subnets) }
       \cup { c.sgs[i].crn : i \in 1..Len(c.sgs) } \cup { c.lbs[i].crn : i \in 1..Len(c.lbs) }

\* Those of them the reconciler created: the cloud handed their CRNs out of
\* CRNPool.
CreatedCRNs(c) == ResourceCRNs(c) \cap { CRNPool[i] : i \in 1..Len(CRNPool) }

\* C11: whenever a sub-reconciler reports completion (no requeue, no error),
\* every resource the reconciler created carries the cluster tag, also a
\* resource whose tagging failed in the pass that created it and that a later
\* pass found by name.
C11_CreatedResourcesTagged ==
    (ret.op \in Ops \ {"ReconcileResourceGroup"} /\ ~ret.requeue /\ ~ret.err)
       => \A crn \in CreatedCRNs(cloud) : <<crn, spec.name>> \in cloud.attached

\* The requests of TagResource.
TagAPIs == {"ListTags", "CreateTag", "AttachTag"}

\* C12: when a create request of a pass succeeded and a request of the tag
\* step that follows it (list tags, create tag, attach tag) fails, the pass
\* returns an error without requeue, the failed request is the last request
\* of the pass (no delete, no other compensating request), and every resource
\* the pass created is still in the account.
C12_TagFailureSurfacedResourceKept ==
    [][\A i \in 1..Len(calls') :
          ( /\ calls'[i].api \in TagAPIs /\ ~calls'[i].ok
            /\ \E j \in 1..(i - 1) : IsCreate(calls'[j].api) /\ calls'[j].ok )
          => /\ ret'.err /\ ~ret'.requeue
             /\ i = Len(calls')
             /\ CreatedCRNs(cloud) \subseteq CreatedCRNs(cloud')
             /\ Cardinality(CreatedCRNs(cloud')) =
                   Cardinality(CreatedCRNs(cloud))
                      + Len(SelectSeq(Creates(calls'),
                                      LAMBDA c : c.api # "CreateSecurityGroupRule"))]_vars

\* C12 witness: a ReconcileVPC pass created the VPC r1, failed to attach the
\* tag, returned an error, and the VPC is in the account, untagged.
C12_Witness ==
    /\ ret.op = "ReconcileVPC" /\ ret.err
    /\ Len(Creates(calls)) = 1 /\ Creates(calls)[1].api = "CreateVPC"
    /\ calls[Len(calls)].api = "AttachTag" /\ ~calls[Len(calls)].ok
    /\ "crn:r1" \in CreatedCRNs(cloud)
    /\ <<"crn:r1", spec.name>> \notin cloud.attached
    /\ status.vpc = None

(***************************************************************************)
(* SpecParts: the five sub-reconcilers and ReconcileResourceGroup, each    *)
(* invoked on its own and in any order, against one account.               *)
(***************************************************************************)
PartFaults == {"none", "AttachTag"}

InitParts == Init /\ stopOnRequeue = TRUE

\* One sub-reconciler runs on its own.
PartPass(op) == \E f \in PartFaults : Pass(op, RunStep(World(f), op), f)

NextParts ==
    \/ PartPass("ReconcileResourceGroup")
    \/ PartPass("ReconcileVPC")
    \/ PartPass("ReconcileVPCCustomImage")
    \/ PartPass("ReconcileSubnets")
    \/ PartPass("ReconcileSecurityGroups")
    \/ PartPass("ReconcileLoadBalancers")
    \/ VPCBecomesAvailable
    \/ ImageBecomesAvailable
    \/ SubnetBecomesAvailable
    \/ LoadBalancerBecomesActive

SpecParts == InitParts /\ [][NextParts]_vars

\* C14: requeue and error are mutually exclusive outcomes of every
\* sub-reconciler: a pass that returns an error returns requeue=false, and a
\* pass that returns requeue=true returns no error.
C14_RequeueExcludesError ==
    ret.op \in {"ReconcileVPC", "ReconcileVPCCustomImage", "ReconcileSubnets",
                "ReconcileSecurityGroups", "ReconcileLoadBalancers"}
       => ~(ret.requeue /\ ret.err)

\* C14 witness: each of the five sub-reconcilers has run, and the last pass,
\* ReconcileSecurityGroups, created a group, failed to tag it and returned the
\* error with requeue=false.
C14_Witness ==
    /\ ret.op = "ReconcileSecurityGroups" /\ ret.err /\ ~ret.requeue
    /\ GroupCreated(calls)
    /\ \A op \in {"ReconcileVPC", "ReconcileVPCCustomImage", "ReconcileSubnets",
                  "ReconcileSecurityGroups", "ReconcileLoadBalancers"} :
          hist.outcome[op] # "none"

(***************************************************************************)
(* Claims about provisioning-pending resources, preconditions and the      *)
(* status cache.                                                           *)
(***************************************************************************)
\* The resources of a collection that the last request of the pass, a
\* successful fetch by ID, returned.
FetchedLast(cs, api, resources) ==
    IF cs # <<>> /\ cs[Len(cs)].api = api /\ cs[Len(cs)].ok
    THEN SelectSeq(resources, LAMBDA x : x.id = cs[Len(cs)].arg)
    ELSE <<>>

\* The entries of the status cache for a resource ID, of any kind.
StatusEntries(st, id) ==
    { e \in (IF st.vpc = None THEN {} ELSE {st.vpc[1]})
               \cup (IF st.image = None THEN {} ELSE {st.image[1]})
               \cup { st.controlPlaneSubnets[n] : n \in DOMAIN st.controlPlaneSubnets }
               \cup { st.workerSubnets[n] : n \in DOMAIN st.workerSubnets } : e.id = id }

\* C15 as stated: when ReconcileVPC, ReconcileVPCCustomImage or
\* reconcileSubnet ends by fetching an existing live resource by ID, the pass
\* returns no error, it asks for a requeue when the resource is not
\* Available (exactly then, when the fetch is the only request of the pass),
\* and the status cache holds an entry for the resource whose ready flag is
\* the negation of that.
C15_PendingIsRequeueNotError ==
    [][\A f \in { <<"ReconcileVPC", "GetVPC", cloud'.vpcs>>,
                  <<"ReconcileVPCCustomImage", "GetImage", cloud'.images>>,
                  <<"ReconcileSubnets", "GetSubnet", cloud'.subnets>> } :
          (ret'.op = f[1] /\ FetchedLast(calls', f[2], f[3]) # <<>>)
             => LET r == FetchedLast(calls', f[2], f[3])[1]
                IN  /\ ~ret'.err
                    /\ r.status # "available" => ret'.requeue
                    /\ Len(calls') = 1 => ret'.requeue = (r.status # "available")
                    /\ \E e \in StatusEntries(status', r.id) :
                          e.ready = (r.status = "available")]_vars

\* C16: when the image spec declares no operatingSystem and the account holds
\* no image, a ReconcileVPCCustomImage pass returns an error and issues no
\* CreateImage request.
C16_NoOperatingSystemNoCreate ==
    [][( /\ ret'.op = "ReconcileVPCCustomImage"
         /\ spec.image # None /\ spec.image[1].operatingSystem = Nil
         /\ cloud.images = <<>> )
       => /\ ret'.err /\ ~ret'.requeue
          /\ RequestsOf(calls', "CreateImage", {spec.image[1].name}) = <<>>
          /\ cloud'.images = <<>>]_vars

\* C16 witness: with every request succeeding and the resource group
\* resolved, the pass over an image spec without operatingSystem, backed by
\* an object in storage, ended with an error before any create.
C16_Witness ==
    /\ ret.op = "ReconcileVPCCustomImage" /\ ret.err /\ fault = "none"
    /\ spec.image # None /\ spec.image[1].operatingSystem = Nil /\ spec.image[1].cos
    /\ cloud.images = <<>>
    /\ Len(calls) = 1 /\ calls[1].api = "ListResourceGroups" /\ calls[1].ok

(***************************************************************************)
(* SpecTag: TagResource applied to resources of one account.               *)
(***************************************************************************)
TagFaults == {"none", "ListTags", "CreateTag", "AttachTag"}

\* The names of the user tags an account may hold before the first call: the
\* cluster's name, names that contain it or are contained in it, an
\* unrelated name and a tag without a name.
TagNames == {ClusterName, "c1-old", "c", "other", Nil}

InitTag ==
    /\ InitCommon
    /\ stopOnRequeue = TRUE
    /\ spec = BaseSpec
    /\ status = EmptyStatus
    /\ \E ts \in SUBSET TagNames :
          cloud = [BaseCloud EXCEPT !.vpcs = <<OldVPC("c1-vpc", "available")>>,
                                    !.subnets = <<OldSubnet("available")>>,
                                    !.sgs = <<OldSecurityGroup>>,
                                    !.tags = ts]

\* TagResource(s.IBMVPCCluster.Name, crn) for a resource of the account.
TagResourceCall ==
    \E crn \in ResourceCRNs(cloud), f \in TagFaults :
        \E r \in {TagResource(World(f), spec.name, crn)} :
            Pass("TagResource", Return(r.w, FALSE, r.err), f)

NextTag == TagResourceCall

SpecTag == InitTag /\ [][NextTag]_vars

\* C17: TagResource(tagName, crn) issues a CreateTag request, for tagName,
\* exactly when the list of user tags was obtained and holds no tag whose
\* name equals tagName; and when the list and the create (if any) succeeded
\* it issues exactly one AttachTag request, for crn, as its last request,
\* after which crn carries the tag.  It issues no AttachTag otherwise.
C17_CreateTagIffAbsentThenAttach ==
    [][ret'.op = "TagResource" =>
         LET listed == calls' # <<>> /\ calls'[1].api = "ListTags" /\ calls'[1].ok
             creates == RequestsOf(calls', "CreateTag", {spec.name})
             attaches == SelectSeq(calls', LAMBDA c : c.api = "AttachTag")
         IN  /\ Len(SelectSeq(calls', LAMBDA c : c.api = "CreateTag")) = Len(creates)
             /\ Len(creates) = (IF listed /\ spec.name \notin cloud.tags THEN 1 ELSE 0)
             /\ Len(attaches) =
                   (IF listed /\ (spec.name \in cloud.tags \/ creates[1].ok) THEN 1 ELSE 0)
             /\ attaches # <<>> =>
                   /\ calls'[Len(calls')] = attaches[1]
                   /\ attaches[1].ok <=> ~ret'.err
                   /\ attaches[1].ok => <<attaches[1].arg, spec.name>> \in cloud'.attached]_vars

\* C17 witness: the account held tags named c1-old and c but none named c1:
\* the call created the tag c1 and then attached it to the resource.
C17_Witness ==
    /\ ret.op = "TagResource" /\ ~ret.err
    /\ Len(calls) = 3
    /\ calls[2].api = "CreateTag" /\ calls[2].arg = ClusterName /\ calls[2].ok
    /\ calls[3].api = "AttachTag" /\ calls[3].ok
    /\ {"c1-old", "c", ClusterName} \subseteq cloud.tags
    /\ <<calls[3].arg, ClusterName>> \in cloud.attached

\* The names of the declared security groups.
DeclaredGroupNames ==
    { spec.network.securityGroups[i].name : i \in 1..Len(spec.network.securityGroups) }

\* C18: every entry of the status buckets controlPlaneSubnets, workerSubnets
\* and securityGroups is stored under the name of the declared resource it
\* describes: the entry's name is its key, and the key is the name of a
\* declared (or generated) subnet of the role, or of a declared group.
C18_StatusKeyedByName ==
    /\ \A role \in BOOLEAN :
          LET bucket == IF role THEN status.controlPlaneSubnets ELSE status.workerSubnets
          IN  \A key \in DOMAIN bucket :
                 /\ bucket[key].name = key
                 /\ \E i \in 1..Len(SubnetsOfRole(role)) : SubnetsOfRole(role)[i].name = key
    /\ \A key \in DOMAIN status.securityGroups :
          /\ status.securityGroups[key].name = key
          /\ key \in DeclaredGroupNames

(***************************************************************************)
(* The security-group reconciler when every request succeeds: the          *)
(* controller runs the pass again for as long as a pass changes anything.  *)
(***************************************************************************)
ReconcileSecurityGroupsSucceeds ==
    Pass("ReconcileSecurityGroups", ReconcileSecurityGroups(World("none")), "none")

NextSGLive == ReconcileSecurityGroupsSucceeds

SpecSGLive == InitSG /\ [][NextSGLive]_vars /\ WF_vars(NextSGLive)

\* Every declared group is declared by name, with no ID.
GroupsDeclaredByName ==
    \A i \in 1..Len(spec.network.securityGroups) : spec.network.securityGroups[i].id = Nil

\* Every declared group is in the account and holds, for every declared rule
\* and remote, a live rule that matches it.
DeclaredRulesPresent ==
    \A i \in 1..Len(spec.network.securityGroups) :
        LET sg == spec.network.securityGroups[i]
        IN  \E g \in 1..Len(cloud.sgs) :
               /\ cloud.sgs[g].name = sg.name
               /\ \A r \in 1..Len(sg.rules) : \A m \in 1..Len(sg.rules[r].remotes) :
                     \E j \in 1..Len(LiveRulesOf(cloud, cloud.sgs[g].id)) :
                        SpecRuleMatches(cloud, sg.rules[r], sg.rules[r].remotes[m],
                                        LiveRulesOf(cloud, cloud.sgs[g].id)[j])

\* C19: when the groups are declared by name and every request succeeds,
\* repeated ReconcileSecurityGroups passes eventually return requeue=false
\* without error, with every declared rule present in the account.
C19_NamedGroupsConverge ==
    GroupsDeclaredByName
        => <>( /\ ret.op = "ReconcileSecurityGroups" /\ ~ret.requeue /\ ~ret.err
               /\ DeclaredRulesPresent )

\* What stands in the way: as long as the groups are declared by name, a
\* ReconcileSecurityGroups pass that ends without error asks for a requeue.
NamedGroupsAlwaysRequeue ==
    (GroupsDeclaredByName /\ ret.op = "ReconcileSecurityGroups" /\ ~ret.err) => ret.requeue

\* The CreateSecurityGroupRule requests of a call log that the service
\* accepted.
RulesCreated(cs) == SelectSeq(cs, LAMBDA c : c.api = "CreateSecurityGroupRule" /\ c.ok)

\* C20: a rule that a ReconcileSecurityGroups pass created for a declared
\* rule and remote is recognised by the next pass as a match for the same
\* declared rule and remote: the next pass, when it lists the rules of the
\* group, sends no create request with the same prototype for the group.
\* This holds for every declared protocol, port range, ICMP type/code and
\* remote kind, a remote of kind Any included.
C20_CreatedRuleMatchesOnNextPass ==
    [][\A i \in 1..Len(RulesCreated(calls)) :
         ( /\ ret.op = "ReconcileSecurityGroups"
           /\ ret'.op = "ReconcileSecurityGroups"
           /\ RequestsOf(calls', "ListSecurityGroupRules", {RulesCreated(calls)[i].arg}) # <<>> )
           => \A j \in 1..Len(calls') :
                 ~( /\ calls'[j].api = "CreateSecurityGroupRule"
                    /\ calls'[j].arg = RulesCreated(calls)[i].arg
                    /\ calls'[j].k = RulesCreated(calls)[i].k )]_vars

(***************************************************************************)
(* Claims on a VPC found by its declared name (SpecVPC).                   *)
(***************************************************************************)
\* A ReconcileVPC pass that started without a cached VPC and whose lookup by
\* the declared name found a VPC of the account.
VPCFoundByName ==
    /\ ret'.op = "ReconcileVPC"
    /\ ~(status.networkStatus /\ status.vpc # None)
    /\ calls' # <<>> /\ calls'[1].api = "GetVPCByName" /\ calls'[1].ok
    /\ NamedVPCs(cloud, calls'[1].arg) # <<>>

\* C21 as stated: when the status holds no VPC and the lookup by name finds
\* one, the pass (all requests succeeding) caches it with ready=false and
\* returns requeue=true, whatever the VPC's live status; and ready=true is
\* written only by a pass that started with the VPC cached.
C21_FoundByNameCachedNotReady ==
    [][/\ (VPCFoundByName /\ fault' = "none")
            => /\ ~ret'.err /\ ret'.requeue
               /\ status'.vpc # None /\ ~status'.vpc[1].ready
       /\ (ret'.op = "ReconcileVPC" /\ status'.vpc # None /\ status'.vpc[1].ready
           /\ status'.vpc # status.vpc)
            => (status.networkStatus /\ status.vpc # None)]_vars

\* C21 amended: when the status holds no VPC and the lookup by the declared
\* name finds one, the pass records the VPC's ID in the spec and fetches the
\* VPC by that ID in the same pass; when the fetch succeeds it caches
\* {id, name, ready = (live status is available)} and returns
\* requeue = ~ready without error; when the fetch fails it returns an error
\* without requeue and leaves the status as it was.
C21_FoundByNameFetchedInSamePass ==
    [][VPCFoundByName =>
         LET found == NamedVPCs(cloud, calls'[1].arg)[1]
         IN  /\ spec'.network.vpc[1].id = found.id
             /\ Len(calls') = 2
             /\ calls'[2].api = "GetVPC" /\ calls'[2].arg = found.id
             /\ IF calls'[2].ok
                THEN /\ ~ret'.err
                     /\ ret'.requeue = (found.status # "available")
                     /\ status'.networkStatus
                     /\ status'.vpc = Some([id |-> found.id, name |-> found.name,
                                            ready |-> found.status = "available"])
                ELSE /\ ret'.err /\ ~ret'.requeue
                     /\ status' = status]_vars

\* C21 witness: a pass found the available VPC by its declared name, fetched
\* it by ID and cached it ready in the same pass, with no requeue.
C21_Witness ==
    /\ ret.op = "ReconcileVPC" /\ ~ret.err /\ ~ret.requeue
    /\ Len(calls) = 2
    /\ calls[1].api = "GetVPCByName" /\ calls[1].ok
    /\ calls[2].api = "GetVPC" /\ calls[2].ok
    /\ status.vpc # None /\ status.vpc[1].ready
    /\ spec.network.vpc[1].id = status.vpc[1].id

\* C22: over any sequence of ReconcileVPCCustomImage passes, one that failed
\* after CreateImage succeeded included, a CreateImage request is never
\* issued while an image with the declared name exists in the account.
C22_NoCreateImageWhileNameExists ==
    [][ImageCreateStep =>
         \A i \in 1..Len(cloud.images) : cloud.images[i].name # spec.image[1].name]_vars

(***************************************************************************)
(* SpecMatch: reconcileSecurityGroupRule alone, for one declared rule of    *)
(* group g1 against the live rules the group holds.                        *)
(***************************************************************************)
MatchFaults == {"none", "GetVPCSubnetByName", "GetSecurityGroupByName"}

\* A declared icmp rule with type and code.
DeclaredIcmp(type, code, remotes) ==
    [DeclaredRule("inbound", "icmp", None, remotes) EXCEPT !.icmpType = Some(type),
                                                           !.icmpCode = Some(code)]

\* A CIDR remote that also carries a security-group name.
RemoteCIDRWithGroupName(subnetName, name) ==
    [RemoteCIDR(subnetName) EXCEPT !.securityGroupName = name]

\* The declared rules, each with one remote.
MatchRules ==
    { DeclaredRule("inbound", "icmp", None, <<RemoteAddress("a1")>>),
      DeclaredIcmp(8, 0, <<RemoteAddress("a1")>>),
      DeclaredRule("inbound", "tcp", Port(22), <<RemoteAddress("a1")>>),
      DeclaredRule("inbound", "tcp", Port(22), <<RemoteAny>>),
      DeclaredRule("inbound", "tcp", Port(22), <<RemoteCIDR("cp-a")>>),
      DeclaredRule("inbound", "tcp", Port(22), <<RemoteCIDRWithGroupName("cp-a", "cp-b")>>),
      DeclaredRule("inbound", "tcp", Port(22), <<RemoteSG("sg-a")>>) }

\* The second group of the account.
OtherSecurityGroup == [OldSecurityGroup EXCEPT !.id = "g2", !.crn = "crn:g2", !.name = "sg-b"]

OldRemoteSG(crn) == [kind |-> "sg", cidrBlock |-> Nil, address |-> Nil, crn |-> crn]

\* The rules group g1 may hold, as rule prototypes.
LiveRulePool ==
    { RulePrototype(DeclaredRule("inbound", "icmp", None, <<>>), OldRemoteIP("a1")),
      RulePrototype(DeclaredIcmp(8, 0, <<>>), OldRemoteIP("a1")),
      RulePrototype(DeclaredIcmp(3, 0, <<>>), OldRemoteIP("a1")),
      RulePrototype(DeclaredRule("inbound", "tcp", Port(22), <<>>), OldRemoteIP("a1")),
      RulePrototype(DeclaredRule("inbound", "tcp", Port(22), <<>>), OldRemoteIP("a2")),
      RulePrototype(DeclaredRule("inbound", "tcp", Port(22), <<>>), OldRemoteIP(CIDRBlockAny)),
      RulePrototype(DeclaredRule("inbound", "tcp", Port(22), <<>>), OldRemoteCIDR(CIDRBlockAny)),
      RulePrototype(DeclaredRule("inbound", "tcp", Port(22), <<>>), OldRemoteCIDR("10.0.0.0/24")),
      RulePrototype(DeclaredRule("inbound", "tcp", Port(22), <<>>), OldRemoteCIDR("10.0.1.0/24")),
      RulePrototype(DeclaredRule("inbound", "tcp", Port(22), <<>>), OldRemoteSG("crn:g1")),
      RulePrototype(DeclaredRule("inbound", "tcp", Port(22), <<>>), OldRemoteSG("crn:g2")) }

\* The lists of one or two live rules of the rule's protocol.
LiveRuleLists(rule) ==
    { l \in UNION { [1..n -> LiveRulePool] : n \in 1..2 } :
        \A i \in 1..Len(l) : l[i].protocol = rule.protocol }

InitMatch ==
    /\ InitCommon
    /\ stopOnRequeue = TRUE
    /\ \E rule \in MatchRules :
          /\ spec = [BaseSpec EXCEPT !.network.securityGroups =
                        <<[id |-> "g1", name |-> "sg-a", rules |-> <<rule>>]>>]
          /\ status = [EmptyStatus EXCEPT
                          !.networkStatus = TRUE,
                          !.vpc = Some([id |-> "x1", name |-> "c1-vpc", ready |-> TRUE])]
          /\ \E old \in LiveRuleLists(rule), typing \in {"typed", "generic"} :
                LET c == [BaseCloud EXCEPT
                             !.vpcs = <<OldVPC("c1-vpc", "available")>>,
                             !.subnets = <<OldSubnet("available"), OtherSubnet>>,
                             !.sgs = <<OldSecurityGroup, OtherSecurityGroup>>,
                             !.tags = {ClusterName}, !.remoteTyping = typing]
                IN  cloud = [c EXCEPT !.rules = [i \in 1..Len(old) |->
                                                    ListedRule(c, IF i = 1 THEN "o1" ELSE "o2",
                                                               "g1", old[i])]]

\* reconcileSecurityGroupRule(g1, rule) for the declared rule.
ReconcileRulePass ==
    \E f \in MatchFaults :
        Pass("reconcileSecurityGroupRule",
             reconcileSecurityGroupRule(World(f), "g1",
                                        spec.network.securityGroups[1].rules[1]), f)

NextMatch == ReconcileRulePass

SpecMatch == InitMatch /\ [][NextMatch]_vars

(***************************************************************************)
(* Claims on the matching of live rules (SpecMatch).                       *)
(***************************************************************************)
\* The declared rule, its one remote and the live rules of g1 when the pass
\* starts.
MatchRule == spec.network.securityGroups[1].rules[1]

MatchRemote1 == MatchRule.remotes[1]

LiveRules == LiveRulesOf(cloud, "g1")

\* The step is a reconcileSecurityGroupRule pass.
RulePass == ret'.op = "reconcileSecurityGroupRule"

\* The pass found the declared rule and remote among the live rules: it ends
\* without error and without requeue and sends no create request.
Matched ==
    /\ RulePass /\ ~ret'.err /\ ~ret'.requeue
    /\ RuleCreatesFor(calls', "g1") = <<>>

\* C23: a declared icmp rule without type and code matches a live icmp rule
\* of the same direction with an equivalent remote; a declared icmp rule with
\* type and code matches only a live icmp rule with the same type and code.
C23_IcmpTypeCodeOnlyWhenDeclared ==
    [][(RulePass /\ fault' = "none" /\ MatchRule.protocol = "icmp") =>
         /\ ( /\ MatchRule.icmpType = None /\ MatchRule.icmpCode = None
              /\ \E j \in 1..Len(LiveRules) :
                    /\ LiveRules[j].protocol = "icmp"
                    /\ LiveRules[j].direction = MatchRule.direction
                    /\ SpecRemoteEquivalent(cloud, MatchRemote1, LiveRules[j].remote) )
               => Matched
         /\ (MatchRule.icmpType # None /\ MatchRule.icmpCode # None /\ Matched)
               => \E j \in 1..Len(LiveRules) :
                     /\ LiveRules[j].protocol = "icmp"
                     /\ LiveRules[j].type = MatchRule.icmpType
                     /\ LiveRules[j].code = MatchRule.icmpCode]_vars

\* C24: a declared remote of kind CIDR naming subnet S matches a live rule
\* with a CIDR-block remote exactly when the live block is the current block
\* of the subnet found by the name S, the remote's CIDR subnet name, which is
\* also the only name the pass looks a subnet up by.
C24_CIDRRemoteBySubnetName ==
    [][(RulePass /\ fault' = "none" /\ MatchRemote1.remoteType = "cidr") =>
         /\ Matched <=> \E j \in 1..Len(LiveRules) :
                           SpecRuleMatches(cloud, MatchRule, MatchRemote1, LiveRules[j])
         /\ \A i \in 1..Len(calls') :
               calls'[i].api = "GetVPCSubnetByName"
                  => calls'[i].arg = MatchRemote1.cidrSubnetName]_vars

\* C25: a declared remote of kind Address is matched only by a live rule
\* whose remote is that address, and a declared remote of kind Any only by a
\* live rule whose remote is the sentinel 0.0.0.0/0; a live remote of another
\* or of an unrecognised kind matches neither.
C25_AddressAndAnyMatchOnlyTheirValue ==
    [][(Matched /\ MatchRemote1.remoteType \in {"address", "any"}) =>
         \E j \in 1..Len(LiveRules) :
            SpecRuleMatches(cloud, MatchRule, MatchRemote1, LiveRules[j])]_vars

\* The check of the first live rule alone, under the fault of the pass.
FirstRuleCheck == CheckExistingRule(World(fault'), MatchRule, MatchRemote1, LiveRules[1])

\* C26: once a live rule matches the declared remote, no further live rule
\* is examined for it: when the first live rule matches, the pass issues the
\* list request and the requests of that one check and no other, and it ends
\* without error whatever the check of a later live rule would do.
C26_StopsAtFirstMatch ==
    [][(RulePass /\ calls' # <<>> /\ calls'[1].ok
        /\ ~FirstRuleCheck.err /\ FirstRuleCheck.val[1]) =>
         /\ calls' = <<calls'[1]>> \o FirstRuleCheck.w.calls
         /\ ~ret'.err]_vars

(***************************************************************************)
(* Subnets and their public gateways over two zones (SpecGateways).        *)
(***************************************************************************)
GatewayFaults == {"none", "GetPublicGatewayByName", "CreatePublicGateway", "AttachTag",
                  "GetVPCSubnetByName", "CreateSubnet"}

\* The account's quota here: a gateway per zone and a subnet per zone and role.
GatewayQuota == 2 * MaxCreated

\* The declared control-plane and worker subnets: one of each role in the
\* same zone, control-plane subnets in both zones and no worker subnet, or
\* none at all (one generated per zone).
GatewaySpecs ==
    { <<(<<[id |-> Nil, name |-> "cp-a", zone |-> "z1"]>>),
        (<<[id |-> Nil, name |-> "wk-a", zone |-> "z1"]>>)>>,
      <<(<<[id |-> Nil, name |-> "cp-a", zone |-> "z1"],
           [id |-> Nil, name |-> "cp-b", zone |-> "z2"]>>), <<>> >>,
      << <<>>, <<>> >> }

InitGateways ==
    /\ InitCommon
    /\ stopOnRequeue = TRUE
    /\ \E d \in GatewaySpecs, v \in {"cached", "declared"} :
          /\ spec = [BaseSpec EXCEPT
                        !.network.controlPlaneSubnets = d[1],
                        !.network.workerSubnets = d[2],
                        !.network.vpc = IF v = "declared"
                                        THEN Some([id |-> "x1", name |-> Nil]) ELSE None]
          /\ status = IF v = "cached"
                      THEN [EmptyStatus EXCEPT
                               !.networkStatus = TRUE,
                               !.vpc = Some([id |-> "x1", name |-> "c1-vpc", ready |-> TRUE])]
                      ELSE EmptyStatus
    /\ cloud = [BaseCloud EXCEPT !.vpcs = <<OldVPC("c1-vpc", "available")>>,
                                 !.zones = <<"z1", "z2">>,
                                 !.tags = {ClusterName},
                                 !.quota = GatewayQuota]

ReconcileGatewaysPass ==
    \E f \in GatewayFaults : Pass("ReconcileSubnets", ReconcileSubnets(World(f)), f)

NextGateways == ReconcileGatewaysPass \/ SubnetBecomesAvailable

SpecGateways == InitGateways /\ [][NextGateways]_vars

\* The step is a pass of ReconcileSubnets.
SubnetsPass == ret'.op = "ReconcileSubnets" /\ calls' # calls

\* The deterministic name of the public gateway of a zone.
GatewayNameOf(zone) == SprintfZone(SprintfPGateway(spec.name), zone)

\* Request i of the pass concerns a public gateway: the lookup by name, the
\* create request, or the attach request that tags a gateway.
IsGatewayRequest(i) ==
    \/ calls'[i].api \in {"GetPublicGatewayByName", "CreatePublicGateway"}
    \/ /\ calls'[i].api = "AttachTag"
       /\ \E j \in 1..Len(cloud'.pgws) : cloud'.pgws[j].crn = calls'[i].arg

\* Before request i of the pass, the gateway p was found by its name.
GatewayFoundBefore(i, p) ==
    \E j \in 1..(i - 1) :
       /\ calls'[j].api = "GetPublicGatewayByName" /\ calls'[j].ok
       /\ calls'[j].arg = p.name
       /\ \/ \E n \in 1..Len(cloud.pgws) : cloud.pgws[n] = p
          \/ \E m \in 1..(j - 1) :
                calls'[m].api = "CreatePublicGateway" /\ calls'[m].ok /\ calls'[m].arg = p.name

\* Before request i of the pass, the gateway p was created and then tagged.
GatewayCreatedAndTaggedBefore(i, p) ==
    \E j \in 1..(i - 1) :
       /\ calls'[j].api = "CreatePublicGateway" /\ calls'[j].ok /\ calls'[j].arg = p.name
       /\ \A n \in 1..Len(cloud.pgws) : cloud.pgws[n] # p
       /\ \E t \in (j + 1)..(i - 1) :
             calls'[t].api = "AttachTag" /\ calls'[t].ok /\ calls'[t].arg = p.crn

\* C27: every CreateSubnet request of a pass is issued after the public
\* gateway of its zone was resolved in that pass (found by its name, or
\* created and then tagged) and names that gateway; a failed gateway lookup,
\* creation or tagging is the last request of the pass, which ends with an
\* error, so no CreateSubnet follows it.
C27_GatewayResolvedBeforeCreateSubnet ==
    [][SubnetsPass =>
         \A i \in 1..Len(calls') :
            /\ (calls'[i].api = "CreateSubnet") =>
                 \E n \in 1..Len(cloud'.pgws) :
                    /\ cloud'.pgws[n].name = GatewayNameOf(calls'[i].k.zone)
                    /\ cloud'.pgws[n].zone = calls'[i].k.zone
                    /\ cloud'.pgws[n].id = calls'[i].k.publicGateway
                    /\ \/ GatewayFoundBefore(i, cloud'.pgws[n])
                       \/ GatewayCreatedAndTaggedBefore(i, cloud'.pgws[n])
            /\ (IsGatewayRequest(i) /\ ~calls'[i].ok) =>
                 (i = Len(calls') /\ ret'.err)]_vars

\* A pass created and tagged the gateway of a zone and then created a subnet
\* there, after an earlier pass had failed at the gateway.
C27_Witness ==
    /\ ret.op = "ReconcileSubnets"
    /\ hist.before = "error"
    /\ \E j, t, i \in 1..Len(calls) :
          /\ j < t /\ t < i
          /\ calls[j].api = "CreatePublicGateway" /\ calls[j].ok
          /\ calls[t].api = "AttachTag" /\ calls[t].ok
          /\ calls[i].api = "CreateSubnet" /\ calls[i].ok
          /\ calls[i].k.zone = calls[j].k.zone
    /\ cloud.subnets # <<>>

\* The public gateways of a zone in the account.
GatewaysOfZone(zone) == SelectSeq(cloud.pgws, LAMBDA p : p.zone = zone)

\* The successful CreatePublicGateway requests of all passes so far for a
\* zone, counted with their repetitions.
GatewayCreateKeys(zone) ==
    {key \in DOMAIN hist.created : key[1] = "CreatePublicGateway" /\ key[3].zone = zone}

NoSubnetsDeclared ==
    Len(spec.network.controlPlaneSubnets) = 0 /\ Len(spec.network.workerSubnets) = 0

\* The names of the subnets generated for the zones, {cluster}-subnet-{zone},
\* in the order of the zones.
SynthesizedNames ==
    [i \in 1..Len(cloud.zones) |-> SprintfZone(SprintfSubnet(spec.name), cloud.zones[i])]

\* The by-name subnet lookups of the pass, in order.
SubnetLookups == SelectSeq(calls', LAMBDA c : c.api = "GetVPCSubnetByName")

\* The successful CreateSubnet requests of all passes up to the end of this
\* step for a zone.
SubnetCreateKeys(zone) ==
    {key \in DOMAIN hist'.created : key[1] = "CreateSubnet" /\ key[3].zone = zone}

LookupsUpTo(i) ==
    Len(SelectSeq(SubSeq(calls', 1, i), LAMBDA c : c.api = "GetVPCSubnetByName"))

\* Request i of the pass failed while a control-plane subnet was reconciled.
ControlPlaneRequestFailed(i) ==
    /\ ~calls'[i].ok
    /\ LookupsUpTo(i) >= 1 /\ LookupsUpTo(i) <= Len(SubnetsOfRole(TRUE))

\* Request i of the pass failed while a worker subnet was reconciled.
WorkerRequestFailed(i) ==
    /\ ~calls'[i].ok
    /\ LookupsUpTo(i) > Len(SubnetsOfRole(TRUE))

\* The pass needed a requeue: it created a subnet or fetched one that is not
\* available yet.
SubnetNeededRequeue ==
    \E i \in 1..Len(calls') :
       \/ calls'[i].api = "CreateSubnet" /\ calls'[i].ok
       \/ /\ calls'[i].api = "GetSubnet" /\ calls'[i].ok
          /\ \E n \in 1..Len(cloud'.subnets) :
                /\ cloud'.subnets[n].id = calls'[i].arg
                /\ cloud'.subnets[n].status # "available"

\* C30 as stated: when a request fails while a control-plane subnet is
\* reconciled, every worker subnet is still looked up in the same pass, and
\* when one fails for a worker subnet every control-plane subnet was.
C30_RolesIndependent ==
    [][SubnetsPass =>
         \A i \in 1..Len(calls') :
            /\ ControlPlaneRequestFailed(i) =>
                 Len(SubnetLookups) = Len(SubnetsOfRole(TRUE)) + Len(SubnetsOfRole(FALSE))
            /\ WorkerRequestFailed(i) => Len(SubnetLookups) >= Len(SubnetsOfRole(TRUE))]_vars

\* C30 as the code has it: the first failed request ends the pass, which
\* returns the error without requeue, so after a failure for a control-plane
\* subnet no worker subnet is looked up; a failure for a worker subnet comes
\* after every control-plane subnet was reconciled.  A pass without error
\* reconciles every subnet of both roles, whether or not an earlier subnet
\* needed a requeue, and reports requeue when any of them needed it.
C30_FirstErrorEndsThePass ==
    [][SubnetsPass =>
         /\ \A i \in 1..Len(calls') :
               /\ ~calls'[i].ok => (i = Len(calls') /\ ret'.err /\ ~ret'.requeue)
               /\ ControlPlaneRequestFailed(i) =>
                    Len(SubnetLookups) <= Len(SubnetsOfRole(TRUE))
               /\ WorkerRequestFailed(i) => Len(SubnetLookups) >= Len(SubnetsOfRole(TRUE))
         /\ ret'.err => ~ret'.requeue
         /\ ~ret'.err =>
              /\ Len(SubnetLookups) = Len(SubnetsOfRole(TRUE)) + Len(SubnetsOfRole(FALSE))
              /\ ret'.requeue <=> SubnetNeededRequeue]_vars

\* The creation of the control-plane subnet failed and the pass ended with
\* the error, without a request for the declared worker subnet.
C30_Witness ==
    /\ ret.op = "ReconcileSubnets" /\ ret.err
    /\ Len(spec.network.workerSubnets) # 0
    /\ calls # <<>>
    /\ calls[Len(calls)].api = "CreateSubnet" /\ ~calls[Len(calls)].ok
    /\ calls[Len(calls)].arg = "cp-a"
    /\ \A i \in 1..Len(calls) : calls[i].arg # "wk-a"

\* Neither the status cache nor the spec yields a VPC ID: GetVPCID returns
\* nil without an error.
VPCIDUnresolved == status.vpc = None /\ spec.network.vpc = None

\* C31 as stated: a pass that starts without a resolvable VPC ID issues no
\* CreateSubnet request, and when it reaches the creation of a subnet (it
\* looks the zone's public gateway up) it ends with an error, whether or not
\* the gateway exists.
C31_NoCreateSubnetWithoutVPCID ==
    [][(SubnetsPass /\ VPCIDUnresolved) =>
         /\ \A i \in 1..Len(calls') : calls'[i].api # "CreateSubnet"
         /\ (\E i \in 1..Len(calls') : calls'[i].api = "GetPublicGatewayByName") => ret'.err]_vars

\* The same for the accounts in which the zone's public gateway does not
\* exist yet: findOrCreatePublicGateway stops at the missing VPC ID.
NoCreateSubnetWithoutVPCIDAndGateway ==
    [][(SubnetsPass /\ VPCIDUnresolved /\ cloud.pgws = <<>>) =>
         /\ \A i \in 1..Len(calls') :
               calls'[i].api \notin {"CreateSubnet", "CreatePublicGateway"}
         /\ (\E i \in 1..Len(calls') : calls'[i].api = "GetPublicGatewayByName") => ret'.err]_vars

\* A gateway lookup without a resolvable VPC ID and without a gateway in the
\* account ended the pass with an error.
GatewayLookupWithoutVPCID ==
    /\ ret.op = "ReconcileSubnets" /\ ret.err /\ status.vpc = None /\ spec.network.vpc = None
    /\ cloud.pgws = <<>>
    /\ calls # <<>> /\ calls[Len(calls)].api = "GetPublicGatewayByName" /\ calls[Len(calls)].ok

\* The first declared control-plane subnet carries an ID and no name, and the
\* account holds a subnet with that ID.
FirstSubnetByIDOnly ==
    /\ Len(spec.network.controlPlaneSubnets) # 0
    /\ spec.network.controlPlaneSubnets[1].id # Nil
    /\ spec.network.controlPlaneSubnets[1].name = Nil
    /\ \E n \in 1..Len(cloud.subnets) :
          cloud.subnets[n].id = spec.network.controlPlaneSubnets[1].id

\* C32 as stated: a pass whose requests all succeed reconciles a subnet
\* declared with an ID and no name by fetching it by that ID as its first
\* request (no lookup by name, no creation), ends without an error, caches the
\* subnet with ready = (live status is available) and asks for a requeue when
\* it is not ready.
C32_SubnetByIDOnlyIsFetched ==
    [][(ret'.op = "ReconcileSubnets" /\ fault' = "none" /\ FirstSubnetByIDOnly) =>
         /\ ~ret'.err
         /\ calls' # <<>>
         /\ calls'[1].api = "GetSubnet" /\ calls'[1].ok
         /\ calls'[1].arg = spec.network.controlPlaneSubnets[1].id
         /\ \E n \in 1..Len(cloud'.subnets) :
               /\ cloud'.subnets[n].id = spec.network.controlPlaneSubnets[1].id
               /\ \E e \in StatusEntries(status', cloud'.subnets[n].id) :
                     e.ready = (cloud'.subnets[n].status = "available")
               /\ cloud'.subnets[n].status # "available" => ret'.requeue]_vars

\* What does hold for such a subnet: the pass ends with an error and writes
\* no status entry for it; the fetch by ID is issued only when the network
\* status is still nil.
SubnetByIDOnlyFails ==
    [][(ret'.op = "ReconcileSubnets" /\ fault' = "none" /\ FirstSubnetByIDOnly) =>
         /\ ret'.err
         /\ status' = status
         /\ calls' = IF status.networkStatus THEN <<>>
                     ELSE <<[api |-> "GetSubnet", arg |-> spec.network.controlPlaneSubnets[1].id,
                             k |-> <<>>, ok |-> TRUE]>>]_vars

\* The step is a pass of ReconcileLoadBalancers.
LoadBalancersPass == ret'.op = "ReconcileLoadBalancers"

\* The live load balancers with an ID after the step.
LiveLoadBalancers(id) == SelectSeq(cloud'.lbs, LAMBDA x : x.id = id)

\* The positions at which the spec declares the live load balancer lb, by its
\* ID or, without an ID, by its name.
DeclaredAt(lb) ==
    {i \in 1..Len(spec.network.loadBalancers) :
        \/ spec.network.loadBalancers[i].id = lb.id
        \/ /\ spec.network.loadBalancers[i].id = Nil
           /\ spec.network.loadBalancers[i].name = lb.name}

\* The status cache holds the ID, state and hostname of the live load
\* balancer after the step.
LoadBalancerCached(lb) ==
    /\ lb.id \in DOMAIN status'.loadBalancers
    /\ status'.loadBalancers[lb.id].id = lb.id
    /\ status'.loadBalancers[lb.id].state = lb.provisioningStatus
    /\ status'.loadBalancers[lb.id].hostname = lb.hostname

\* Request j was not the last of the pass when the spec declares a load
\* balancer after lb.
WentOnAfter(j, lb) ==
    \A i \in DeclaredAt(lb) : i < Len(spec.network.loadBalancers) => j < Len(calls')

\* C33 as stated: for every declared load balancer a pass fetched from the
\* cloud, the pass wrote its ID, state and hostname into the status cache and
\* went on to the next declared load balancer, in every live state; in the
\* state create_pending the pass reports requeue.
C33_FoundLoadBalancerCachedAndContinue ==
    [][LoadBalancersPass =>
         \A j \in 1..Len(calls') :
            (calls'[j].api = "GetLoadBalancer" /\ calls'[j].ok
                /\ LiveLoadBalancers(calls'[j].arg) # <<>>) =>
               /\ LoadBalancerCached(LiveLoadBalancers(calls'[j].arg)[1])
               /\ WentOnAfter(j, LiveLoadBalancers(calls'[j].arg)[1])
               /\ LiveLoadBalancers(calls'[j].arg)[1].provisioningStatus = "create_pending"
                     => ret'.requeue]_vars

\* C33 as the code has it: a fetched load balancer whose live state is
\* create_pending ends the pass at once with requeue=true and without an
\* error, its status entry is left as it was and no later declared load
\* balancer is looked at; in every other live state its ID, state and
\* hostname are written into the status cache and the pass goes on to the
\* next declared load balancer.  A load balancer cached as active at the start
\* of the pass is not fetched.
C33_PendingLoadBalancerEndsThePass ==
    [][LoadBalancersPass =>
         \A j \in 1..Len(calls') :
            (calls'[j].api = "GetLoadBalancer" /\ calls'[j].ok
                /\ LiveLoadBalancers(calls'[j].arg) # <<>>) =>
               IF LiveLoadBalancers(calls'[j].arg)[1].provisioningStatus = "create_pending"
               THEN /\ j = Len(calls')
                    /\ ret'.requeue /\ ~ret'.err
                    /\ MapGet(status'.loadBalancers, calls'[j].arg, None)
                          = MapGet(status.loadBalancers, calls'[j].arg, None)
               ELSE /\ LoadBalancerCached(LiveLoadBalancers(calls'[j].arg)[1])
                    /\ WentOnAfter(j, LiveLoadBalancers(calls'[j].arg)[1])
                    /\ ~(/\ status.networkStatus
                         /\ calls'[j].arg \in DOMAIN status.loadBalancers
                         /\ status.loadBalancers[calls'[j].arg].state = "active")]_vars

\* A pass fetched the load balancer l1, declared first, found it in the state
\* create_pending and ended there with requeue=true: nothing was cached and
\* the load balancer declared after it was not looked at.
C33_Witness ==
    /\ ret.op = "ReconcileLoadBalancers" /\ ret.requeue /\ ~ret.err
    /\ Len(spec.network.loadBalancers) > 1
    /\ calls # <<>>
    /\ calls[Len(calls)].api = "GetLoadBalancer" /\ calls[Len(calls)].ok
    /\ calls[Len(calls)].arg = "l1"
    /\ \E n \in 1..Len(cloud.lbs) :
          cloud.lbs[n].id = "l1" /\ cloud.lbs[n].provisioningStatus = "create_pending"
    /\ "l1" \notin DOMAIN status.loadBalancers
    /\ \A i \in 1..Len(calls) : calls[i].arg # "lb-a"

\* A pass fetched the load balancer l1, declared first and neither active nor
\* create_pending, cached it and went on to create the next declared one.
FetchedLoadBalancerCached ==
    /\ ret.op = "ReconcileLoadBalancers" /\ ret.requeue
    /\ Len(calls) > 2
    /\ calls[2].api = "GetLoadBalancer" /\ calls[2].ok /\ calls[2].arg = "l1"
    /\ "l1" \in DOMAIN status.loadBalancers
    /\ status.loadBalancers["l1"].state = "delete_pending"
    /\ calls[Len(calls)].api = "CreateLoadBalancer" /\ calls[Len(calls)].ok

\* The live load balancers the spec's load balancer d stands for: the one with
\* the declared ID or, without an ID, those with the declared name.
LiveLoadBalancersOf(d) ==
    SelectSeq(cloud.lbs, LAMBDA x : IF d.id # Nil THEN x.id = d.id ELSE x.name = d.name)

\* The last ReconcileLoadBalancers pass reported completion.
LoadBalancersDone == ret.op = "ReconcileLoadBalancers" /\ ~ret.requeue /\ ~ret.err

\* C34 as stated: when a ReconcileLoadBalancers pass returns requeue=false
\* without an error, every declared load balancer exists, is active, and is
\* cached with the state active.
C34_DoneOnlyWhenAllActive ==
    LoadBalancersDone =>
       \A i \in 1..Len(spec.network.loadBalancers) :
          /\ LiveLoadBalancersOf(spec.network.loadBalancers[i]) # <<>>
          /\ LiveLoadBalancersOf(spec.network.loadBalancers[i])[1].provisioningStatus = "active"
          /\ LiveLoadBalancersOf(spec.network.loadBalancers[i])[1].id
                \in DOMAIN status.loadBalancers
          /\ status.loadBalancers[LiveLoadBalancersOf(spec.network.loadBalancers[i])[1].id].state
                = "active"

\* What holds instead: when a pass reports completion every declared load
\* balancer exists and is cached with its live state, which is any state but
\* create_pending.
DoneOnlyWhenNoneCreatePending ==
    LoadBalancersDone =>
       \A i \in 1..Len(spec.network.loadBalancers) :
          /\ LiveLoadBalancersOf(spec.network.loadBalancers[i]) # <<>>
          /\ LiveLoadBalancersOf(spec.network.loadBalancers[i])[1].provisioningStatus
                # "create_pending"
          /\ LiveLoadBalancersOf(spec.network.loadBalancers[i])[1].id
                \in DOMAIN status.loadBalancers
          /\ status.loadBalancers[LiveLoadBalancersOf(spec.network.loadBalancers[i])[1].id].state
                = LiveLoadBalancersOf(spec.network.loadBalancers[i])[1].provisioningStatus

\* C35 as stated: no CreateLoadBalancer request carries an empty subnet set;
\* a pass that resolves no subnet ID issues no such request.
C35_NoLoadBalancerWithoutSubnets ==
    [][LoadBalancersPass =>
         \A j \in 1..Len(calls') :
            calls'[j].api = "CreateLoadBalancer" => calls'[j].k.subnets # {}]_vars

\* What holds: a pass in which the lookup of a declared subnet's ID failed
\* issues no CreateLoadBalancer request and ends with an error.
NoLoadBalancerAfterFailedSubnetLookup ==
    [][LoadBalancersPass =>
         \A j \in 1..Len(calls') :
            (calls'[j].api = "GetVPCSubnetByName" /\ ~calls'[j].ok) =>
               /\ j = Len(calls') /\ ret'.err
               /\ LoadBalancerCreates(calls') = <<>>]_vars

\* A pass ended with an error at the failed lookup of a subnet's ID.
FailedSubnetLookup ==
    /\ ret.op = "ReconcileLoadBalancers" /\ ret.err
    /\ calls # <<>>
    /\ calls[Len(calls)].api = "GetVPCSubnetByName" /\ ~calls[Len(calls)].ok

\* The subnet IDs the state resolves for the control-plane and worker roles
\* before a pass: those of the two status buckets when the cluster has a
\* network status, else those the spec declares, by ID or through a name that
\* a subnet of the account carries.
SubnetIDsOfBuckets ==
    {status.controlPlaneSubnets[key].id : key \in DOMAIN status.controlPlaneSubnets}
       \cup {status.workerSubnets[key].id : key \in DOMAIN status.workerSubnets}

DeclaredSubnets ==
    {spec.network.controlPlaneSubnets[i] : i \in 1..Len(spec.network.controlPlaneSubnets)}
       \cup {spec.network.workerSubnets[i] : i \in 1..Len(spec.network.workerSubnets)}

SubnetIDsOfSpec ==
    {d.id : d \in {x \in DeclaredSubnets : x.id # Nil}}
       \cup {cloud.subnets[n].id : n \in {m \in 1..Len(cloud.subnets) :
                \E d \in DeclaredSubnets : d.id = Nil /\ d.name = cloud.subnets[m].name}}

ResolvedSubnetIDs == IF status.networkStatus THEN SubnetIDsOfBuckets ELSE SubnetIDsOfSpec

\* The network status as the first successful request of a pass that is not a
\* create finds it: a load balancer cached earlier in the pass has created it.
ResolvedSubnetIDsAt(j) ==
    IF \E i \in 1..(j - 1) : calls'[i].api = "GetLoadBalancer" /\ calls'[i].ok
          /\ DOMAIN status'.loadBalancers # DOMAIN status.loadBalancers
    THEN SubnetIDsOfBuckets ELSE ResolvedSubnetIDs

\* C36: the subnet set of a CreateLoadBalancer request is exactly the set of
\* the subnet IDs resolved for the control-plane and worker roles: every
\* resolved ID is in it, an ID shared by both roles or cached under several
\* status keys counts once, and no other ID is in it.
C36_LoadBalancerSubnetsAreTheResolvedIDs ==
    [][LoadBalancersPass =>
         \A j \in 1..Len(calls') :
            calls'[j].api = "CreateLoadBalancer" =>
               calls'[j].k.subnets = ResolvedSubnetIDsAt(j)]_vars

\* A load balancer was created with the one subnet s1, which the status
\* caches under two keys, its ID and its name.
C36_Witness ==
    /\ ret.op = "ReconcileLoadBalancers" /\ ret.requeue
    /\ DOMAIN status.controlPlaneSubnets = {"s1", "cp-a"}
    /\ calls # <<>>
    /\ calls[Len(calls)].api = "CreateLoadBalancer" /\ calls[Len(calls)].ok
    /\ calls[Len(calls)].k.subnets = {"s1"}

\* A load balancer was created with the subnets of both roles, s1 and s2.
LoadBalancerOnBothRoles ==
    /\ ret.op = "ReconcileLoadBalancers" /\ ret.requeue
    /\ calls # <<>>
    /\ calls[Len(calls)].api = "CreateLoadBalancer" /\ calls[Len(calls)].ok
    /\ calls[Len(calls)].k.subnets = {"s1", "s2"}

\* C37 as stated: every pool of a CreateLoadBalancer request, the pool of the
\* API port and the pool of each additional listener, uses the round-robin
\* algorithm and the health check of 60 s delay, 5 retries, 30 s timeout and
\* type https.
C37_PoolsUseTheFixedHealthCheck ==
    [][LoadBalancersPass =>
         \A j \in 1..Len(calls') :
            calls'[j].api = "CreateLoadBalancer" =>
               \A n \in 1..Len(calls'[j].k.pools) :
                  /\ calls'[j].k.pools[n].algorithm = "round_robin"
                  /\ calls'[j].k.pools[n].healthMonitor
                        = [delay |-> 60, maxRetries |-> 5, timeout |-> 30, type |-> "https"]]_vars

\* What the requests carry: round robin, and the health check of 5 s delay,
\* 2 retries, 2 s timeout and type tcp, whatever backend pools are declared.
PoolsUseTheTCPHealthCheck ==
    [][LoadBalancersPass =>
         \A j \in 1..Len(calls') :
            calls'[j].api = "CreateLoadBalancer" =>
               \A n \in 1..Len(calls'[j].k.pools) :
                  /\ calls'[j].k.pools[n].algorithm = "round_robin"
                  /\ calls'[j].k.pools[n].healthMonitor
                        = [delay |-> 5, maxRetries |-> 2, timeout |-> 2, type |-> "tcp"]]_vars

\* A load balancer was created with the pool of the API port and the pool of
\* an additional listener.
LoadBalancerWithAdditionalPool ==
    /\ ret.op = "ReconcileLoadBalancers" /\ ret.requeue
    /\ calls # <<>>
    /\ calls[Len(calls)].api = "CreateLoadBalancer" /\ calls[Len(calls)].ok
    /\ Len(calls[Len(calls)].k.pools) = 2

\* The entry of an optional status field is kept by the step, with its ID
\* when it had one.
OptionalEntryKept(before, after) ==
    before # None =>
       (after # None /\ (before[1].id # "" => after[1].id = before[1].id))

\* Every entry of a status bucket is kept under its key by the step, with its
\* ID when it had one.
BucketEntriesKept(before, after) ==
    \A key \in DOMAIN before :
       key \in DOMAIN after /\ (before[key].id # "" => after[key].id = before[key].id)

\* C38: no step removes an entry from the status cache or changes the ID of
\* one: the resource group, the VPC, the image, and every entry of the
\* subnet, security-group and load-balancer buckets present before a reconcile
\* operation is present after it with the same ID, whether the operation
\* ends done, with a requeue or with an error.
C38_StatusEntriesAreKept ==
    [][/\ OptionalEntryKept(status.resourceGroup, status'.resourceGroup)
       /\ OptionalEntryKept(status.vpc, status'.vpc)
       /\ OptionalEntryKept(status.image, status'.image)
       /\ BucketEntriesKept(status.controlPlaneSubnets, status'.controlPlaneSubnets)
       /\ BucketEntriesKept(status.workerSubnets, status'.workerSubnets)
       /\ BucketEntriesKept(status.securityGroups, status'.securityGroups)
       /\ BucketEntriesKept(status.loadBalancers, status'.loadBalancers)
       /\ status.networkStatus => status'.networkStatus]_vars

\* What holds: the resource group, the VPC, the image, the subnets and the
\* load balancers keep their entries and IDs; the security-group bucket keeps
\* its keys.
EntriesButSecurityGroupsKept ==
    [][/\ OptionalEntryKept(status.resourceGroup, status'.resourceGroup)
       /\ OptionalEntryKept(status.vpc, status'.vpc)
       /\ OptionalEntryKept(status.image, status'.image)
       /\ BucketEntriesKept(status.controlPlaneSubnets, status'.controlPlaneSubnets)
       /\ BucketEntriesKept(status.workerSubnets, status'.workerSubnets)
       /\ DOMAIN status.securityGroups \subseteq DOMAIN status'.securityGroups
       /\ BucketEntriesKept(status.loadBalancers, status'.loadBalancers)
       /\ status.networkStatus => status'.networkStatus]_vars

(***************************************************************************)
(* Readiness of the status entries under fair scheduling: the controller   *)
(* runs ReconcileSubnets again after every requeue, every cloud call       *)
(* succeeds, and a pending subnet becomes available.                       *)
(***************************************************************************)
ReconcileSubnetsSucceeds ==
    Pass("ReconcileSubnets", ReconcileSubnets(World("none")), "none")

NextSubnetsLive == ReconcileSubnetsSucceeds \/ SubnetBecomesAvailable

SpecSubnetsLive ==
    /\ InitSubnets
    /\ [][NextSubnetsLive]_vars
    /\ WF_vars(ReconcileSubnetsSucceeds)
    /\ WF_vars(SubnetBecomesAvailable)

\* The IDs the cloud hands out.
CreatedSubnetIDs == {IDPool[i] : i \in 1..Len(IDPool)}

\* The keys a subnet status entry can be stored under.
SubnetStatusKeys == {"", "s1", "cp-a", "wk-a", "c1-subnet-z1"} \cup CreatedSubnetIDs

SubnetEntryReady(isControlPlane, key, ready) ==
    /\ key \in DOMAIN SubnetBucket([status |-> status], isControlPlane)
    /\ SubnetBucket([status |-> status], isControlPlane)[key].ready = ready

\* C39: every status entry written with ready=false is updated to
\* ready=true by some later pass; no entry stays ready=false forever.  Stated
\* for the subnet entries of either role.
C39_EveryEntryBecomesReady ==
    \A isControlPlane \in BOOLEAN : \A key \in SubnetStatusKeys :
          SubnetEntryReady(isControlPlane, key, FALSE)
              ~> SubnetEntryReady(isControlPlane, key, TRUE)

\* The entries stored under a subnet's name do become ready.
NamedSubnetEntriesBecomeReady ==
    \A isControlPlane \in BOOLEAN : \A key \in {"cp-a", "wk-a", "c1-subnet-z1"} :
       SubnetEntryReady(isControlPlane, key, FALSE)
           ~> SubnetEntryReady(isControlPlane, key, TRUE)

\* The entry of a created subnet, stored under the subnet's ID, is never
\* written again.
CreatedSubnetEntryStaysUnready ==
    [][\A isControlPlane \in BOOLEAN : \A key \in CreatedSubnetIDs :
          SubnetEntryReady(isControlPlane, key, FALSE)
              => SubnetEntryReady(isControlPlane, key, FALSE)']_vars

\* An optional status entry that is ready stays ready over the step.
OptionalEntryStaysReady(before, after) ==
    (before # None /\ before[1].ready) => (after # None /\ after[1].ready)

\* Every ready entry of a status bucket stays ready over the step.
BucketEntriesStayReady(before, after) ==
    \A key \in DOMAIN before :
       before[key].ready => (key \in DOMAIN after /\ after[key].ready)

\* C40: readiness is monotonic: while the cloud reports no resource leaving
\* the available state, an entry of the status cache (VPC, image, subnet or
\* security group) that has ready=true keeps ready=true over every step.
C40_ReadinessIsMonotonic ==
    [][/\ OptionalEntryStaysReady(status.vpc, status'.vpc)
       /\ OptionalEntryStaysReady(status.image, status'.image)
       /\ BucketEntriesStayReady(status.controlPlaneSubnets, status'.controlPlaneSubnets)
       /\ BucketEntriesStayReady(status.workerSubnets, status'.workerSubnets)
       /\ BucketEntriesStayReady(status.securityGroups, status'.securityGroups)]_vars

\* What holds: the VPC, the image and the subnet entries keep ready=true.
ReadinessButSecurityGroupsIsMonotonic ==
    [][/\ OptionalEntryStaysReady(status.vpc, status'.vpc)
       /\ OptionalEntryStaysReady(status.image, status'.image)
       /\ BucketEntriesStayReady(status.controlPlaneSubnets, status'.controlPlaneSubnets)
       /\ BucketEntriesStayReady(status.workerSubnets, status'.workerSubnets)]_vars

====
